---- MODULE Spec2Model ----
(***************************************************************************)
(* A model of the widget SDK runtime (widget-sdk/src/core.ts), of the      *)
(* useSubmission hook (my-widget/src/main.tsx) and of the two hosts        *)
(* (mobile/components/WidgetHost.tsx, host-web/src/App.tsx) that drive it. *)
(*                                                                         *)
(* JSON values are records with a tag.  A parameter tree, a payload and an *)
(* object are functions from keys to values.  Values on the wire are JSON  *)
(* values, so a key whose value is undefined never occurs in a payload and *)
(* the test `payload.__answer !== undefined` is the presence of the key.   *)
(*                                                                         *)
(* SpecRuntime is WidgetRuntime alone, driven by any inbound message and   *)
(* any subscription.  Spec is the widget page with either host, the        *)
(* messages between them in flight; SpecMobile is the mobile host alone,   *)
(* with delivery into the WebView fair.  SpecHook is a component that uses *)
(* useSubmission on top of the runtime.  SpecBridge is UniversalBridge     *)
(* with the runtime's listener on it, under subscriptions and under any    *)
(* inbound data, malformed data included; SpecSend is the runtime's        *)
(* sending calls under every combination of host interfaces.  SpecSchema   *)
(* is the parameter builders with defineWidget, the hosts' default trees,  *)
(* deepMerge and checkVisibility on bounded inputs; SpecPane is the web    *)
(* host's pane under edits whose serialization may suspend.  SpecHookLive  *)
(* is SpecHook with the pending submit fair; SpecMobileHost is the mobile  *)
(* host's handleMessage under any sequence of inbound messages;            *)
(* SpecValidate is validateWidget of the web host, its timer fair.         *)
(***************************************************************************)
EXTENDS Integers, Sequences, FiniteSets, TLC

VARIABLES
  rt,        \* WidgetRuntime's static fields
  calls,     \* the callback invocations made by the most recent operation, in order
  last,      \* the most recent operation and the most recent PARAMS_UPDATE payload
  received,  \* how many inbound messages the runtime has handled
  host,      \* the host component's state, refs and pending timers
  widget,    \* the widget page: loaded or not, pending timers, wrapper state;
             \* under SpecHook, the component that calls useSubmission
  toWidget,  \* messages from the host on their way to the widget
  toHost,    \* messages from the widget on their way to the host
  note,      \* what the most recent step sent or handled
  ghost      \* history: how often each bounded step was taken, what was submitted

vars == <<rt, calls, last, received, host, widget, toWidget, toHost, note, ghost>>
sysvars == <<host, widget, toWidget, toHost, note, ghost>>

---------------------------------------------------------------------------
(* Bounds *)

\* inbound messages handled in one behaviour
MaxMsgs == 3

---------------------------------------------------------------------------
(* JSON values *)

Null == [tag |-> "null"]
Str(cs) == [tag |-> "str", chars |-> cs]
Obj(f) == [tag |-> "obj", fields |-> f]
Num(n) == [tag |-> "num", n |-> n]
Bool(b) == [tag |-> "bool", b |-> b]

EmptyTree == <<>>

\* the reserved key
AnswerKey == "__answer"

\* the parameter trees the host may send
ParamTrees ==
  {EmptyTree,
   [title |-> Str(<<"a">>)],
   [title |-> Str(<<"n">>)],
   [title |-> Str(<<"a">>), mode |-> Str(<<"a">>)]}

\* the answers a payload may carry
AnswerInputs == {Null, Str(<<"a">>), Obj([selected |-> Str(<<"a">>)])}

\* tree with key k bound to v (object spread followed by one property)
WithKey(tree, k, v) == [x \in (DOMAIN tree) \cup {k} |-> IF x = k THEN v ELSE tree[x]]

\* tree without key k (rest destructuring)
WithoutKey(tree, k) == [x \in (DOMAIN tree) \ {k} |-> tree[x]]

Payloads == ParamTrees \cup {WithKey(t, AnswerKey, a) : t \in ParamTrees, a \in AnswerInputs}

NoUpdate == [tag |-> "none"]

\* the part of the state a specification does not use
Idle == [tag |-> "idle"]

---------------------------------------------------------------------------
(* Wire encodings.  A string value is a sequence over Chars: a plain       *)
(* letter, the letter n, a single quote, a double quote, a backslash and a *)
(* line break.                                                             *)

Chars == {"a", "n", "SQ", "DQ", "BS", "NL"}

JsonEscapeChar(c) ==
  CASE c = "DQ" -> <<"BS", "DQ">>
    [] c = "BS" -> <<"BS", "BS">>
    [] c = "NL" -> <<"BS", "n">>
    [] OTHER -> <<c>>

\* JSON.stringify of a string, without the enclosing double quotes
RECURSIVE JsonStringifyChars(_)
JsonStringifyChars(cs) ==
  IF cs = <<>> THEN <<>> ELSE JsonEscapeChar(Head(cs)) \o JsonStringifyChars(Tail(cs))

EscapeQuoteChar(c) == IF c = "SQ" THEN <<"BS", "SQ">> ELSE <<c>>

\* messageJson.replace(/'/g, "\\'")
RECURSIVE EscapeSingleQuotes(_)
EscapeSingleQuotes(t) ==
  IF t = <<>> THEN <<>> ELSE EscapeQuoteChar(Head(t)) \o EscapeSingleQuotes(Tail(t))

Fail == [ok |-> FALSE, chars |-> <<>>]
Ok(cs) == [ok |-> TRUE, chars |-> cs]
Cons(c, r) == IF r.ok THEN Ok(<<c>> \o r.chars) ELSE Fail

\* the string the JavaScript literal '<t>' denotes; a raw quote or line break
\* ends the literal early and the injected script does not run
RECURSIVE EvalJsSingleQuoted(_)
EvalJsSingleQuoted(t) ==
  IF t = <<>> THEN Ok(<<>>)
  ELSE IF Head(t) = "BS"
       THEN IF Len(t) = 1 THEN Fail
            ELSE Cons(IF t[2] = "n" THEN "NL" ELSE t[2], EvalJsSingleQuoted(Tail(Tail(t))))
       ELSE IF Head(t) \in {"SQ", "NL"} THEN Fail
            ELSE Cons(Head(t), EvalJsSingleQuoted(Tail(t)))

\* JSON.parse of the string text "<t>"; an unescaped double quote or line
\* break, or an escape JSON does not know, is a SyntaxError
RECURSIVE JsonParseChars(_)
JsonParseChars(t) ==
  IF t = <<>> THEN Ok(<<>>)
  ELSE IF Head(t) = "BS"
       THEN IF Len(t) = 1 THEN Fail
            ELSE IF t[2] \in {"DQ", "BS"} THEN Cons(t[2], JsonParseChars(Tail(Tail(t))))
            ELSE IF t[2] = "n" THEN Cons("NL", JsonParseChars(Tail(Tail(t))))
            ELSE Fail
       ELSE IF Head(t) \in {"DQ", "NL"} THEN Fail
            ELSE Cons(Head(t), JsonParseChars(Tail(t)))

\* a string sent by the mobile host's sendMessage, as the widget's
\* handleMessageFromNative parses it
NativeChars(cs) ==
  LET lit == EvalJsSingleQuoted(EscapeSingleQuotes(JsonStringifyChars(cs)))
  IN  IF lit.ok THEN JsonParseChars(lit.chars) ELSE Fail

\* a string sent through ReactNativeWebView.postMessage(JSON.stringify(..)),
\* as the mobile host's JSON.parse reads it
JsonChars(cs) == JsonParseChars(JsonStringifyChars(cs))

\* a string sent over a wire: "native" is the mobile host's script injection,
\* "json" the WebView's postMessage of JSON text
WireChars(wire, cs) == IF wire = "native" THEN NativeChars(cs) ELSE JsonChars(cs)

\* a value with every string in it sent over the wire; ok is false when a
\* string does not survive
RECURSIVE WireValue(_, _)
WireValue(wire, v) ==
  CASE v.tag = "str" ->
         LET r == WireChars(wire, v.chars) IN [ok |-> r.ok, value |-> Str(r.chars)]
    [] v.tag = "obj" ->
         LET f == [k \in DOMAIN v.fields |-> WireValue(wire, v.fields[k])]
         IN  [ok |-> \A k \in DOMAIN f : f[k].ok,
              value |-> Obj([k \in DOMAIN f |-> f[k].value])]
    [] OTHER -> [ok |-> TRUE, value |-> v]

\* a message with its payload sent over the wire
WireMessage(wire, message) ==
  IF "payload" \notin DOMAIN message THEN [ok |-> TRUE, message |-> message]
  ELSE LET w == WireValue(wire, Obj(message.payload))
       IN  [ok |-> w.ok, message |-> [message EXCEPT !.payload = w.value.fields]]

---------------------------------------------------------------------------
(* WidgetRuntime *)

CbIds == {"cb1", "cb2"}

\* Set.add: insertion order, an element already present keeps its place
SetAdd(s, e) == IF \E i \in 1..Len(s) : s[i] = e THEN s ELSE Append(s, e)

\* Set.delete
SetDelete(s, e) == SelectSeq(s, LAMBDA x : x # e)

SetHas(s, e) == \E i \in 1..Len(s) : s[i] = e

Call(kind, cb, value) == [kind |-> kind, cb |-> cb, value |-> value]

notifyParamsListeners(r) ==
  [i \in 1..Len(r.paramsListeners) |-> Call("params", r.paramsListeners[i], r.params)]

notifyAnswerListeners(r) ==
  [i \in 1..Len(r.answerListeners) |-> Call("answer", r.answerListeners[i], r.initialAnswer)]

HasAnswer(payload) == AnswerKey \in DOMAIN payload

\* EnterReview that stores the payload as received
EnterReview_KeepsAnswerKey(r, payload) ==
  LET r1 == [r EXCEPT !.initialAnswer = payload[AnswerKey]]
      c1 == notifyAnswerListeners(r1)
      r2 == [r1 EXCEPT !.params = payload]
  IN  [rt |-> r2, calls |-> c1]

\* the branch of the handler for a payload that carries __answer
EnterReview(r, payload) ==
  LET r1 == [r EXCEPT !.initialAnswer = payload[AnswerKey]]
      c1 == notifyAnswerListeners(r1)
      r2 == [r1 EXCEPT !.params = WithoutKey(payload, AnswerKey)]
  IN  [rt |-> r2, calls |-> c1]

\* PlainUpdate that notifies the answer subscribers on every plain update
PlainUpdate_AlwaysNotifies(r, payload) ==
  LET r1 == [r EXCEPT !.initialAnswer = Null]
      c1 == notifyAnswerListeners(r1)
      r2 == [r1 EXCEPT !.params = payload]
  IN  [rt |-> r2, calls |-> c1]

\* PlainUpdate that patches the stored tree instead of replacing it
PlainUpdate_Merges(r, payload) ==
  LET clear == r.initialAnswer # Null
      r1 == IF clear THEN [r EXCEPT !.initialAnswer = Null] ELSE r
      c1 == IF clear THEN notifyAnswerListeners(r1) ELSE <<>>
      r2 == [r1 EXCEPT !.params = payload @@ r.params]
  IN  [rt |-> r2, calls |-> c1]

\* the branch of the handler for a payload without __answer
PlainUpdate_KeepsAnswer(r, payload) ==
  LET r1 == [r EXCEPT !.params = payload]
  IN  [rt |-> r1, calls |-> notifyParamsListeners(r1)]

\* PlainUpdate that empties the stored tree when the payload repeats it
PlainUpdate_ResetsOnRepeat(r, payload) ==
  LET clear == r.initialAnswer # Null
      r1 == IF clear THEN [r EXCEPT !.initialAnswer = Null] ELSE r
      c1 == IF clear THEN notifyAnswerListeners(r1) ELSE <<>>
      r2 == [r1 EXCEPT !.params = IF r.params = payload THEN EmptyTree ELSE payload]
  IN  [rt |-> r2, calls |-> c1]

PlainUpdate(r, payload) ==
  LET clear == r.initialAnswer # Null
      r1 == IF clear THEN [r EXCEPT !.initialAnswer = Null] ELSE r
      c1 == IF clear THEN notifyAnswerListeners(r1) ELSE <<>>
      r2 == [r1 EXCEPT !.params = payload]
  IN  [rt |-> r2, calls |-> c1]

\* a handler that notifies the parameter subscribers first
RuntimeOnMessage_ParamsFirst(r, message) ==
  IF message.type = "PARAMS_UPDATE"
  THEN LET b == IF HasAnswer(message.payload)
                THEN EnterReview(r, message.payload)
                ELSE PlainUpdate(r, message.payload)
       IN  [rt |-> b.rt, calls |-> notifyParamsListeners(b.rt) \o b.calls]
  ELSE [rt |-> r, calls |-> <<>>]

\* a handler that takes the payload of a message of any type as the tree
RuntimeOnMessage_AnyType(r, message) ==
  LET b == IF HasAnswer(message.payload)
           THEN EnterReview(r, message.payload)
           ELSE PlainUpdate(r, message.payload)
  IN  [rt |-> b.rt, calls |-> b.calls \o notifyParamsListeners(b.rt)]

\* the listener WidgetRuntime.init registers on the bridge
RuntimeOnMessage(r, message) ==
  IF message.type = "PARAMS_UPDATE"
  THEN LET b == IF HasAnswer(message.payload)
                THEN EnterReview(r, message.payload)
                ELSE PlainUpdate(r, message.payload)
       IN  [rt |-> b.rt, calls |-> b.calls \o notifyParamsListeners(b.rt)]
  ELSE [rt |-> r, calls |-> <<>>]

\* the replay test of onParamsChange
HasParams(r) == DOMAIN r.params # {}

onParamsChange(r, cb) ==
  LET r1 == [r EXCEPT !.paramsListeners = SetAdd(r.paramsListeners, cb)]
  IN  [rt |-> r1,
       calls |-> IF HasParams(r1) THEN <<Call("params", cb, r1.params)>> ELSE <<>>]

\* a replay test that always replays
HasInitialAnswer_Always(r) == TRUE

\* the replay test of onAnswerChange
HasInitialAnswer(r) == r.initialAnswer # Null

onAnswerChange(r, cb) ==
  LET r1 == [r EXCEPT !.answerListeners = SetAdd(r.answerListeners, cb)]
  IN  [rt |-> r1,
       calls |-> IF HasInitialAnswer(r1) THEN <<Call("answer", cb, r1.initialAnswer)>> ELSE <<>>]

unsubscribeParams(r, cb) == [r EXCEPT !.paramsListeners = SetDelete(r.paramsListeners, cb)]

unsubscribeAnswer(r, cb) == [r EXCEPT !.answerListeners = SetDelete(r.answerListeners, cb)]

RuntimeInit ==
  [params |-> EmptyTree, initialAnswer |-> Null,
   paramsListeners |-> <<>>, answerListeners |-> <<>>]

---------------------------------------------------------------------------
(* The runtime under arbitrary inbound messages and subscriptions *)

InboundMessages ==
  {[type |-> "PARAMS_UPDATE", payload |-> p] : p \in Payloads}
    \cup {[type |-> "SET_CONFIG", payload |-> p] : p \in {EmptyTree}}

\* op: the operation; cb: its callback; payload: its message payload;
\* lastUpdate: the payload of the most recent PARAMS_UPDATE, this operation
\* included; prevUpdate: the same before this operation
Op(op, cb, payload, lastUpdate, prevUpdate) ==
  [op |-> op, cb |-> cb, payload |-> payload,
   lastUpdate |-> lastUpdate, prevUpdate |-> prevUpdate]

InitRuntime ==
  /\ rt = RuntimeInit
  /\ calls = <<>>
  /\ last = Op("init", "none", NoUpdate, NoUpdate, NoUpdate)
  /\ received = 0
  /\ host = Idle
  /\ widget = Idle
  /\ toWidget = <<>>
  /\ toHost = <<>>
  /\ note = Idle
  /\ ghost = Idle

Receive ==
  \E message \in InboundMessages :
    /\ received < MaxMsgs
    /\ LET out == RuntimeOnMessage(rt, message)
       IN  /\ rt' = out.rt
           /\ calls' = out.calls
    /\ last' = Op(message.type, "none", message.payload,
                  IF message.type = "PARAMS_UPDATE" THEN message.payload ELSE last.lastUpdate,
                  last.lastUpdate)
    /\ received' = received + 1
    /\ UNCHANGED sysvars

SubscribeParams ==
  \E cb \in CbIds :
    /\ LET out == onParamsChange(rt, cb)
       IN  /\ rt' = out.rt
           /\ calls' = out.calls
    /\ last' = Op("onParamsChange", cb, NoUpdate, last.lastUpdate, last.lastUpdate)
    /\ UNCHANGED <<received, sysvars>>

SubscribeAnswer ==
  \E cb \in CbIds :
    /\ LET out == onAnswerChange(rt, cb)
       IN  /\ rt' = out.rt
           /\ calls' = out.calls
    /\ last' = Op("onAnswerChange", cb, NoUpdate, last.lastUpdate, last.lastUpdate)
    /\ UNCHANGED <<received, sysvars>>

UnsubscribeParams ==
  \E cb \in CbIds :
    /\ SetHas(rt.paramsListeners, cb)
    /\ rt' = unsubscribeParams(rt, cb)
    /\ calls' = <<>>
    /\ last' = Op("unsubscribeParams", cb, NoUpdate, last.lastUpdate, last.lastUpdate)
    /\ UNCHANGED <<received, sysvars>>

UnsubscribeAnswer ==
  \E cb \in CbIds :
    /\ SetHas(rt.answerListeners, cb)
    /\ rt' = unsubscribeAnswer(rt, cb)
    /\ calls' = <<>>
    /\ last' = Op("unsubscribeAnswer", cb, NoUpdate, last.lastUpdate, last.lastUpdate)
    /\ UNCHANGED <<received, sysvars>>


---------------------------------------------------------------------------
(* Properties of the runtime *)

AnswerCalls == SelectSeq(calls, LAMBDA c : c.kind = "answer")
ParamsCalls == SelectSeq(calls, LAMBDA c : c.kind = "params")

\* one call per subscriber, in subscription order, each with value v
OneCallEach(kind, listeners, v) == [i \in 1..Len(listeners) |-> Call(kind, listeners[i], v)]

UpdateDone == last.op = "PARAMS_UPDATE"

\* C1: after a PARAMS_UPDATE whose payload has the key __answer, the stored
\* parameter tree and every value handed to a parameter subscriber lack the key
\* __answer, and every answer subscriber was called once, with the payload's
\* __answer value.
C1_ReviewStripsAnswer ==
  (UpdateDone /\ HasAnswer(last.payload)) =>
    /\ ~HasAnswer(rt.params)
    /\ \A i \in 1..Len(calls) : calls[i].kind = "params" => ~HasAnswer(calls[i].value)
    /\ AnswerCalls = OneCallEach("answer", rt.answerListeners, last.payload[AnswerKey])

C1_Witness ==
  /\ UpdateDone
  /\ HasAnswer(last.payload)
  /\ last.payload[AnswerKey] # Null
  /\ DOMAIN rt.params # {}
  /\ Len(rt.answerListeners) = 2
  /\ Len(rt.paramsListeners) = 2

\* C2 as stated: a PARAMS_UPDATE without __answer that follows one with
\* __answer notifies every answer subscriber once, with null; one that follows
\* a PARAMS_UPDATE without __answer notifies no answer subscriber.
C2_ExitNotifiesOnce ==
  (UpdateDone /\ ~HasAnswer(last.payload) /\ last.prevUpdate # NoUpdate) =>
    AnswerCalls = IF HasAnswer(last.prevUpdate)
                  THEN OneCallEach("answer", rt.answerListeners, Null)
                  ELSE <<>>

\* C2 amended: a PARAMS_UPDATE without __answer that follows one whose __answer
\* was not null notifies every answer subscriber once, with null; after any
\* other PARAMS_UPDATE (none, one without __answer, one with __answer null) it
\* notifies no answer subscriber.
C2_ExitNotifiesOnceNonNull ==
  (UpdateDone /\ ~HasAnswer(last.payload)) =>
    AnswerCalls = IF HasAnswer(last.prevUpdate) /\ last.prevUpdate[AnswerKey] # Null
                  THEN OneCallEach("answer", rt.answerListeners, Null)
                  ELSE <<>>

C2_Witness ==
  /\ UpdateDone
  /\ ~HasAnswer(last.payload)
  /\ HasAnswer(last.prevUpdate)
  /\ last.prevUpdate[AnswerKey] # Null
  /\ Len(rt.answerListeners) = 2
  /\ Len(AnswerCalls) = 2

\* C3: once a PARAMS_UPDATE has been handled, the stored parameter tree is the
\* payload of the most recent one without the key __answer; nothing of an
\* earlier payload is kept.
C3_TreeIsLastPayload ==
  last.lastUpdate # NoUpdate => rt.params = WithoutKey(last.lastUpdate, AnswerKey)

C3_Witness ==
  /\ UpdateDone
  /\ last.prevUpdate # NoUpdate
  /\ "mode" \in DOMAIN last.prevUpdate
  /\ "mode" \notin DOMAIN last.payload
  /\ "title" \in DOMAIN last.payload
  /\ last.payload["title"] # last.prevUpdate["title"]

\* every parameter notification reaches every current parameter subscriber
ParamsNotificationsReachAll ==
  /\ UpdateDone => ParamsCalls = OneCallEach("params", rt.paramsListeners, rt.params)
  /\ last.op = "onParamsChange" => SetHas(rt.paramsListeners, last.cb)

\* C9 as stated: onParamsChange(cb) calls cb once with the current tree when a
\* PARAMS_UPDATE has been received, whatever its payload, and does not call it
\* when none has; cb is subscribed and every later notification reaches it.
C9_ReplaysAfterAnyUpdate ==
  /\ last.op = "onParamsChange" =>
       calls = IF last.lastUpdate # NoUpdate
               THEN <<Call("params", last.cb, rt.params)>>
               ELSE <<>>
  /\ ParamsNotificationsReachAll

\* every answer notification reaches every current answer subscriber
AnswerNotificationsReachAll ==
  /\ UpdateDone =>
       AnswerCalls \in {<<>>, OneCallEach("answer", rt.answerListeners, rt.initialAnswer)}
  /\ last.op = "onAnswerChange" => SetHas(rt.answerListeners, last.cb)

\* C10 as stated: onAnswerChange(cb) calls cb once with the answer when the last
\* PARAMS_UPDATE carried __answer and does not call it otherwise; cb is
\* subscribed and every later answer notification reaches it.
C10_ReplaysHeldAnswer ==
  /\ last.op = "onAnswerChange" =>
       calls = IF HasAnswer(last.lastUpdate)
               THEN <<Call("answer", last.cb, last.lastUpdate[AnswerKey])>>
               ELSE <<>>
  /\ AnswerNotificationsReachAll

\* C10 amended: onAnswerChange(cb) calls cb once with the answer when the last
\* PARAMS_UPDATE carried an __answer that is not null, and does not call it
\* otherwise; cb is subscribed and every later answer notification reaches it.
C10_ReplaysHeldNonNullAnswer ==
  /\ last.op = "onAnswerChange" =>
       calls = IF HasAnswer(last.lastUpdate) /\ last.lastUpdate[AnswerKey] # Null
               THEN <<Call("answer", last.cb, last.lastUpdate[AnswerKey])>>
               ELSE <<>>
  /\ AnswerNotificationsReachAll

C10_Witness ==
  /\ last.op = "onAnswerChange"
  /\ HasAnswer(last.lastUpdate)
  /\ last.lastUpdate[AnswerKey] # Null
  /\ Len(calls) = 1
  /\ Len(rt.answerListeners) = 2


---------------------------------------------------------------------------
(* Schemas and configuration trees *)

\* the schema the widget declares: one string control with a default
WidgetSchema == [title |-> [type |-> "string", default |-> Str(<<"a">>)]]

IsFolder(field) == field.type = "folder"

\* an extraction that leaves out a folder without a default below it
RECURSIVE extractDefaults_SkipsEmptyFolders(_)
extractDefaults_SkipsEmptyFolders(schema) ==
  LET sub(k) == extractDefaults_SkipsEmptyFolders(schema[k].fields)
      keys == {k \in DOMAIN schema :
                 IF IsFolder(schema[k]) THEN "fields" \in DOMAIN schema[k] /\ sub(k) # EmptyTree
                 ELSE "default" \in DOMAIN schema[k]}
  IN  [k \in keys |-> IF IsFolder(schema[k]) THEN Obj(sub(k)) ELSE schema[k].default]

\* mobile host: the defaults a schema declares; a control without a default and
\* a folder without fields contribute no key
RECURSIVE extractDefaultsFromSchema(_)
extractDefaultsFromSchema(schema) ==
  LET keys == {k \in DOMAIN schema :
                 IF IsFolder(schema[k]) THEN "fields" \in DOMAIN schema[k]
                 ELSE "default" \in DOMAIN schema[k]}
  IN  [k \in keys |->
         IF IsFolder(schema[k]) THEN Obj(extractDefaultsFromSchema(schema[k].fields))
         ELSE schema[k].default]

\* web host: SchemaProcessor.extractDefaultsFromSchema
RECURSIVE SchemaProcessorDefaults(_)
SchemaProcessorDefaults(schema) ==
  LET folders == {k \in DOMAIN schema : IsFolder(schema[k]) /\ "fields" \in DOMAIN schema[k]}
      controls == {k \in DOMAIN schema : ~IsFolder(schema[k]) /\ "default" \in DOMAIN schema[k]}
  IN  [k \in folders \cup controls |->
         IF k \in folders THEN Obj(SchemaProcessorDefaults(schema[k].fields))
         ELSE schema[k].default]

\* JavaScript truthiness of a JSON value
Truthy(v) ==
  CASE v.tag \in {"null", "undefined"} -> FALSE
    [] v.tag = "str" -> v.chars # <<>>
    [] v.tag = "num" -> v.n # 0
    [] v.tag = "bool" -> v.b
    [] OTHER -> TRUE

\* { ...(target[key] || {}) }: the own enumerable properties of the value
\* under key, those of a string being its characters under "0", "1", ...
SpreadOf(target, key) ==
  IF key \notin DOMAIN target \/ ~Truthy(target[key]) THEN EmptyTree
  ELSE LET v == target[key]
       IN  CASE v.tag = "obj" -> v.fields
             [] v.tag = "str" ->
                  [k \in {ToString(i - 1) : i \in 1..Len(v.chars)} |->
                     Str(<<v.chars[CHOOSE i \in 1..Len(v.chars) : ToString(i - 1) = k]>>)]
             [] v.tag = "arr" ->
                  [k \in {ToString(i - 1) : i \in 1..Len(v.items)} |->
                     v.items[CHOOSE i \in 1..Len(v.items) : ToString(i - 1) = k]]
             [] OTHER -> EmptyTree

\* mobile host: source laid over target; an object in source is merged into
\* what target has under the same key, any other value replaces it
RECURSIVE deepMerge(_, _)
deepMerge(target, source) ==
  [k \in (DOMAIN target) \cup (DOMAIN source) |->
     IF k \notin DOMAIN source THEN target[k]
     ELSE IF source[k].tag = "obj"
          THEN Obj(deepMerge(SpreadOf(target, k), source[k].fields))
          ELSE source[k]]

\* web host: TweakpaneBuilder.serializeConfig on a tree without image values
RECURSIVE serializeConfig(_)
serializeConfig(config) ==
  [k \in DOMAIN config |->
     IF config[k].tag = "obj" THEN Obj(serializeConfig(config[k].fields))
     ELSE config[k]]

---------------------------------------------------------------------------
(* Messages between widget and host *)

ParamsUpdate(payload) == [type |-> "PARAMS_UPDATE", payload |-> payload]

\* a submit that leaves the evaluation out of the submission
submit_AnswerOnly(answer, evaluation) ==
  [type |-> "SUBMIT", payload |-> [answer |-> answer]]

\* WidgetRuntime.submit: the message it sends
submit(answer, evaluation) ==
  [type |-> "SUBMIT", payload |-> [answer |-> answer, evaluation |-> evaluation]]

\* the WIDGET_READY of WidgetRuntime.init carries no payload
ReadySignal == [type |-> "WIDGET_READY"]

\* the WIDGET_READY of createWidget carries the schema
ReadyWithSchema(schema) == [type |-> "WIDGET_READY", payload |-> [schema |-> schema]]

\* a schema with the defaults in it sent over the wire
RECURSIVE WireSchema(_, _)
WireSchema(wire, schema) ==
  LET f == [k \in DOMAIN schema |->
              IF IsFolder(schema[k]) /\ "fields" \in DOMAIN schema[k]
              THEN LET w == WireSchema(wire, schema[k].fields)
                   IN  [ok |-> w.ok, field |-> [schema[k] EXCEPT !.fields = w.schema]]
              ELSE IF "default" \in DOMAIN schema[k]
              THEN LET w == WireValue(wire, schema[k].default)
                   IN  [ok |-> w.ok, field |-> [schema[k] EXCEPT !.default = w.value]]
              ELSE [ok |-> TRUE, field |-> schema[k]]]
  IN  [ok |-> \A k \in DOMAIN f : f[k].ok, schema |-> [k \in DOMAIN f |-> f[k].field]]

\* UniversalBridge.sendToHost followed by the host's receipt: inside an iframe
\* the message object is posted as it is; inside a React Native WebView it is
\* posted as JSON text, which the mobile host parses
WidgetToHost(kind, message) ==
  IF kind = "web" \/ "payload" \notin DOMAIN message THEN [ok |-> TRUE, message |-> message]
  ELSE IF message.type = "WIDGET_READY" /\ "schema" \in DOMAIN message.payload
       THEN LET w == WireSchema("json", message.payload.schema)
            IN  [ok |-> w.ok, message |-> [message EXCEPT !.payload = [schema |-> w.schema]]]
       ELSE WireMessage("json", message)

\* the host's sendMessage followed by the widget's receipt: the web host posts
\* the message object; the mobile host injects a script that hands the JSON
\* text, in a single-quoted literal, to handleMessageFromNative
HostToWidget(kind, message) ==
  IF kind = "web" THEN [ok |-> TRUE, message |-> message]
  ELSE WireMessage("native", message)


---------------------------------------------------------------------------
(* The widget page and the two hosts *)

\* submissions made, pane edits made, in one behaviour
MaxSubmits == 1
MaxEdits == 1

\* the mobile host has no pane, iframe or queue, which leaves room for one more
\* submission
SubmitBound(kind) == IF kind = "mobile" THEN MaxSubmits + 1 ELSE MaxSubmits

NoDef == [tag |-> "nodef"]
NoParams == [tag |-> "noparams"]
NoPane == [tag |-> "nopane"]

\* the configuration the mobile host is mounted with
MobileInitialConfigs ==
  {EmptyTree, [title |-> Str(<<"BS", "n">>)], [title |-> Str(<<"DQ">>)]}

\* the answers the widget's component submits
SubmitAnswers == {Str(<<"a">>), Str(<<"BS", "n">>), Obj([selected |-> Str(<<"DQ">>)])}

\* the values the user types into the pane's title control
PaneInputs == {Str(<<"n">>)}

Evaluation == Obj([isCorrect |-> Bool(FALSE), score |-> Num(0), maxScore |-> Num(100)])

HostInit(kind, initialConfig) ==
  [kind |-> kind, initialConfig |-> initialConfig,
   widgetDef |-> NoDef, config |-> EmptyTree, error |-> Null, loading |-> TRUE,
   submission |-> Null, isReviewMode |-> FALSE,
   configSent |-> FALSE, sendTimers |-> <<>>,
   iframeReady |-> FALSE, queue |-> <<>>, loadTimers |-> 0,
   pane |-> NoPane, paneTimers |-> <<>>, reloadTimer |-> FALSE]

WidgetLoading ==
  [phase |-> "loading", readyTimer |-> FALSE, schemaTimer |-> FALSE, wrapperParams |-> NoParams]

Note(kind, item) == [kind |-> kind, item |-> item]

\* the note of a step that sent and handled no message
Quiet == Note("none", Idle)

\* a message on its way to the widget, with where it came from: the request
\* that sent it, the host's configuration then, the answer as the widget had
\* submitted it
Sent(message, origin, config, answer) ==
  [message |-> message, origin |-> origin, config |-> config, answer |-> answer]

Running == widget.phase = "running"
Mounted == Running /\ widget.wrapperParams # NoParams

\* a message handed to the page: a page that has not run the widget's script
\* has no listener for it
Post(queue, items) == IF Running THEN queue \o items ELSE queue

InitSystem ==
  /\ \E kind \in {"mobile", "web"} :
       \E initialConfig \in (IF kind = "mobile" THEN MobileInitialConfigs ELSE {EmptyTree}) :
         host = HostInit(kind, initialConfig)
  /\ widget = WidgetLoading
  /\ rt = RuntimeInit
  /\ calls = <<>>
  /\ last = Op("init", "none", NoUpdate, NoUpdate, NoUpdate)
  /\ received = 0
  /\ toWidget = <<>>
  /\ toHost = <<>>
  /\ note = Quiet
  /\ ghost = [submits |-> 0, edits |-> 0, lastSubmit |-> NoUpdate,
              reviewConfig |-> NoUpdate, exited |-> FALSE, edited |-> FALSE]

\* the widget's script runs: WidgetRuntime.init registers the bridge listener
\* and schedules the bare WIDGET_READY, createWidget schedules the one with the
\* schema, WidgetWrapper's effect subscribes to parameters; the web host's
\* iframe then fires load, whose handler starts the 300 ms timer
WidgetBoot ==
  /\ widget.phase = "loading"
  /\ widget' = [phase |-> "running", readyTimer |-> TRUE, schemaTimer |-> TRUE,
                wrapperParams |-> NoParams]
  /\ LET out == onParamsChange(RuntimeInit, "cb1")
     IN  /\ rt' = out.rt
         /\ calls' = out.calls
  /\ host' = IF host.kind = "web" THEN [host EXCEPT !.loadTimers = @ + 1] ELSE host
  /\ note' = Quiet
  /\ UNCHANGED <<last, received, toWidget, toHost, ghost>>

\* WidgetRuntime.init's timer: WIDGET_READY without payload
WidgetReadyTimer ==
  /\ Running /\ widget.readyTimer
  /\ widget' = [widget EXCEPT !.readyTimer = FALSE]
  /\ toHost' = Append(toHost, [message |-> ReadySignal])
  /\ note' = Quiet
  /\ calls' = <<>>
  /\ UNCHANGED <<rt, last, received, host, toWidget, ghost>>

\* createWidget's 100 ms timer: WIDGET_READY with the schema
WidgetSchemaTimer ==
  /\ Running /\ widget.schemaTimer /\ ~widget.readyTimer
  /\ widget' = [widget EXCEPT !.schemaTimer = FALSE]
  /\ toHost' = Append(toHost, [message |-> ReadyWithSchema(WidgetSchema)])
  /\ note' = Quiet
  /\ calls' = <<>>
  /\ UNCHANGED <<rt, last, received, host, toWidget, ghost>>

\* the bridge hands a message from the host to WidgetRuntime; WidgetWrapper's
\* subscriber stores the tree and, on the first one, renders the component,
\* whose effect subscribes to the answer
WidgetReceive ==
  /\ Running /\ toWidget # <<>>
  /\ toWidget' = Tail(toWidget)
  /\ LET item == Head(toWidget)
         w == HostToWidget(host.kind, item.message)
     IN  IF ~w.ok
         THEN /\ note' = Note("dropped", item)
              /\ calls' = <<>>
              /\ UNCHANGED <<rt, widget, ghost>>
         ELSE LET out == RuntimeOnMessage(rt, w.message)
                  mine == SelectSeq(out.calls, LAMBDA c : c.kind = "params" /\ c.cb = "cb1")
                  params == IF mine = <<>> THEN widget.wrapperParams ELSE mine[Len(mine)].value
                  mounts == widget.wrapperParams = NoParams /\ params # NoParams
                  sub == IF mounts THEN onAnswerChange(out.rt, "cb2")
                         ELSE [rt |-> out.rt, calls |-> <<>>]
              IN  /\ rt' = sub.rt
                  /\ calls' = out.calls \o sub.calls
                  /\ widget' = [widget EXCEPT !.wrapperParams = params]
                  /\ note' = Note("delivered", [message |-> w.message, origin |-> item.origin,
                                                 config |-> item.config, answer |-> item.answer,
                                                 afterExit |-> ghost.exited])
                  /\ ghost' = [ghost EXCEPT !.exited = FALSE]
  /\ UNCHANGED <<last, received, host, toHost>>

\* the rendered component calls WidgetRuntime.submit
WidgetSubmit ==
  \E answer \in SubmitAnswers :
    /\ Mounted
    /\ ghost.submits < SubmitBound(host.kind)
    /\ toHost' = Append(toHost, [message |-> submit(answer, Evaluation)])
    /\ ghost' = [ghost EXCEPT !.submits = @ + 1]
    /\ note' = Quiet
    /\ calls' = <<>>
  /\ UNCHANGED <<rt, last, received, host, widget, toWidget>>

---------------------------------------------------------------------------
(* Mobile host *)

ErrorText(message) ==
  IF "payload" \in DOMAIN message /\ "message" \in DOMAIN message.payload
     /\ Truthy(message.payload.message)
  THEN message.payload.message
  ELSE Str(<<"Widget error">>)

ReviewPayload_WholeSubmission(config, submission) == WithKey(config, AnswerKey, Obj(submission))

\* config plus the reserved key, set to the submission's answer
ReviewPayload(config, submission) == WithKey(config, AnswerKey, submission.answer)

\* a handleMessage that sends the schema's defaults and leaves initialConfig out
MobileOnMessage_DefaultsOnly(h, message) ==
  IF message.type = "WIDGET_READY"
  THEN IF "payload" \notin DOMAIN message \/ "schema" \notin DOMAIN message.payload
       THEN h
       ELSE LET finalConfig == extractDefaultsFromSchema(message.payload.schema)
                h1 == [h EXCEPT !.widgetDef = message.payload, !.loading = FALSE, !.error = Null]
            IN  IF h.configSent THEN h1
                ELSE [h1 EXCEPT !.configSent = TRUE, !.config = finalConfig,
                                !.sendTimers = Append(@, finalConfig)]
  ELSE IF message.type = "SUBMIT" THEN [h EXCEPT !.submission = message.payload]
  ELSE IF message.type = "ERROR" THEN [h EXCEPT !.error = ErrorText(message)]
  ELSE h

\* a handleMessage without the configSentRef test
MobileOnMessage_SendsEachTime(h, message) ==
  IF message.type = "WIDGET_READY"
  THEN IF "payload" \notin DOMAIN message \/ "schema" \notin DOMAIN message.payload
       THEN h
       ELSE LET defaults == extractDefaultsFromSchema(message.payload.schema)
                finalConfig == deepMerge(defaults, h.initialConfig)
                h1 == [h EXCEPT !.widgetDef = message.payload, !.loading = FALSE, !.error = Null]
            IN  [h1 EXCEPT !.configSent = TRUE, !.config = finalConfig,
                           !.sendTimers = Append(@, finalConfig)]
  ELSE IF message.type = "SUBMIT" THEN [h EXCEPT !.submission = message.payload]
  ELSE IF message.type = "ERROR" THEN [h EXCEPT !.error = ErrorText(message)]
  ELSE h

\* handleMessage of the mobile host, on a message that parsed
MobileOnMessage(h, message) ==
  IF message.type = "WIDGET_READY"
  THEN IF "payload" \notin DOMAIN message \/ "schema" \notin DOMAIN message.payload
       THEN h
       ELSE LET defaults == extractDefaultsFromSchema(message.payload.schema)
                finalConfig == deepMerge(defaults, h.initialConfig)
                h1 == [h EXCEPT !.widgetDef = message.payload, !.loading = FALSE, !.error = Null]
            IN  IF h.configSent THEN h1
                ELSE [h1 EXCEPT !.configSent = TRUE, !.config = finalConfig,
                                !.sendTimers = Append(@, finalConfig)]
  ELSE IF message.type = "SUBMIT" THEN [h EXCEPT !.submission = message.payload]
  ELSE IF message.type = "ERROR" THEN [h EXCEPT !.error = ErrorText(message)]
  ELSE h

\* what a step of the host that handles a message from the widget remembers
Handled(item, w) ==
  /\ note' = IF w.ok /\ w.message.type = "SUBMIT"
             THEN Note("handled", [item EXCEPT !.message = w.message])
             ELSE Quiet
  /\ ghost' = IF w.ok /\ w.message.type = "SUBMIT"
              THEN [ghost EXCEPT !.lastSubmit = item.message.payload.answer]
              ELSE ghost

MobileHandleMessage ==
  /\ host.kind = "mobile" /\ toHost # <<>>
  /\ toHost' = Tail(toHost)
  /\ LET item == Head(toHost)
         w == WidgetToHost("mobile", item.message)
     IN  /\ host' = IF w.ok THEN MobileOnMessage(host, w.message) ELSE host
         /\ Handled(item, w)
  /\ calls' = <<>>
  /\ UNCHANGED <<rt, last, received, widget, toWidget>>

\* the 100 ms timer set when the schema arrived: the first PARAMS_UPDATE
MobileSendTimer ==
  /\ host.kind = "mobile" /\ host.sendTimers # <<>>
  /\ LET item == Sent(ParamsUpdate(Head(host.sendTimers)), "initial", host.config, Null)
     IN  /\ toWidget' = Post(toWidget, <<item>>)
         /\ note' = Note("sent", item)
  /\ host' = [host EXCEPT !.sendTimers = Tail(@)]
  /\ calls' = <<>>
  /\ UNCHANGED <<rt, last, received, widget, toHost, ghost>>

\* the review button, shown while a submission is held and review mode is off
MobileEnterReviewMode ==
  /\ host.kind = "mobile" /\ host.submission # Null /\ ~host.isReviewMode
  /\ LET item == Sent(ParamsUpdate(ReviewPayload(host.config, host.submission)),
                      "review", host.config, ghost.lastSubmit)
     IN  /\ toWidget' = Post(toWidget, <<item>>)
         /\ note' = Note("sent", item)
  /\ host' = [host EXCEPT !.isReviewMode = TRUE]
  /\ ghost' = [ghost EXCEPT !.reviewConfig = host.config, !.edited = FALSE]
  /\ calls' = <<>>
  /\ UNCHANGED <<rt, last, received, widget, toHost>>

\* the exit button, shown while a submission is held and review mode is on
MobileExitReviewMode ==
  /\ host.kind = "mobile" /\ host.submission # Null /\ host.isReviewMode
  /\ LET item == Sent(ParamsUpdate(host.config), "exit", host.config, Null)
     IN  /\ toWidget' = Post(toWidget, <<item>>)
         /\ note' = Note("sent", item)
  /\ host' = [host EXCEPT !.isReviewMode = FALSE, !.submission = Null]
  /\ calls' = <<>>
  /\ UNCHANGED <<rt, last, received, widget, toHost, ghost>>

---------------------------------------------------------------------------
(* Web host *)

\* the pane setup effect, run when widgetDef or iframeReady changed: the old
\* pane is disposed; with a definition a new pane is built on the schema's
\* defaults and a 100 ms timer is set that reports them.  A timer of a disposed
\* pane stays set.  sendMessage in the effect's closure sees the iframeReady of
\* the render the effect belongs to.
PaneEffect(h) ==
  LET stale == [i \in 1..Len(h.paneTimers) |-> [h.paneTimers[i] EXCEPT !.live = FALSE]]
  IN  IF h.widgetDef = NoDef
      THEN [h EXCEPT !.pane = NoPane, !.paneTimers = stale]
      ELSE LET initialConfig == SchemaProcessorDefaults(h.widgetDef.schema)
           IN  [h EXCEPT !.pane = [config |-> initialConfig, ready |-> h.iframeReady],
                         !.paneTimers = Append(stale, [config |-> initialConfig,
                                                       ready |-> h.iframeReady,
                                                       live |-> TRUE])]

\* handleMessage of the web host
WebOnMessage(h, message) ==
  IF message.type = "WIDGET_READY"
  THEN LET def == IF "payload" \in DOMAIN message THEN message.payload ELSE NoDef
           h1 == [h EXCEPT !.widgetDef = def, !.loading = FALSE, !.error = Null]
       IN  IF def = NoDef /\ h.widgetDef = NoDef THEN h1 ELSE PaneEffect(h1)
  ELSE IF message.type = "SUBMIT" THEN [h EXCEPT !.submission = message.payload]
  ELSE IF message.type = "ERROR" THEN [h EXCEPT !.error = ErrorText(message)]
  ELSE h

\* sendMessage of the web host as a closure that saw iframeReady = ready
WebSendMessage(h, ready, item) ==
  IF ready THEN [host |-> h, posted |-> <<item>>]
  ELSE [host |-> [h EXCEPT !.queue = Append(@, item)], posted |-> <<>>]

\* handleConfigChange of the pane setup effect
handleConfigChange(h, ready, newConfig, origin) ==
  WebSendMessage([h EXCEPT !.config = newConfig], ready,
                 Sent(ParamsUpdate(newConfig), origin, newConfig, Null))

WebHandleMessage ==
  /\ host.kind = "web" /\ toHost # <<>>
  /\ toHost' = Tail(toHost)
  /\ LET item == Head(toHost)
         w == WidgetToHost("web", item.message)
     IN  /\ host' = WebOnMessage(host, w.message)
         /\ Handled(item, w)
  /\ calls' = <<>>
  /\ UNCHANGED <<rt, last, received, widget, toWidget>>

\* the 300 ms timer of handleLoad: iframeReady is set and the queue is flushed
WebLoadTimer ==
  /\ host.kind = "web" /\ host.loadTimers > 0
  /\ toWidget' = Post(toWidget, host.queue)
  /\ LET h1 == [host EXCEPT !.loadTimers = @ - 1, !.iframeReady = TRUE, !.queue = <<>>]
     IN  host' = IF host.iframeReady THEN h1 ELSE PaneEffect(h1)
  /\ note' = Quiet
  /\ calls' = <<>>
  /\ UNCHANGED <<rt, last, received, widget, toHost, ghost>>

\* the 100 ms timer of the pane setup effect
WebPaneTimer ==
  /\ host.kind = "web" /\ host.paneTimers # <<>>
  /\ LET t == Head(host.paneTimers)
         out == handleConfigChange([host EXCEPT !.paneTimers = Tail(@)], t.ready,
                                   serializeConfig(t.config), "pane")
     IN  /\ host' = out.host
         /\ toWidget' = Post(toWidget, out.posted)
         /\ note' = Note("sent", Sent(ParamsUpdate(out.host.config), "pane", out.host.config, Null))
  /\ calls' = <<>>
  /\ UNCHANGED <<rt, last, received, widget, toHost, ghost>>

\* the user changes the title control: the pane's change handler
WebPaneEdit ==
  \E value \in PaneInputs :
    /\ host.kind = "web" /\ host.pane # NoPane
    /\ ghost.edits < MaxEdits
    /\ host.pane.config["title"] # value
    /\ LET edited == [host.pane.config EXCEPT !["title"] = value]
           timers == [i \in 1..Len(host.paneTimers) |->
                        IF host.paneTimers[i].live
                        THEN [host.paneTimers[i] EXCEPT !.config = edited]
                        ELSE host.paneTimers[i]]
           out == handleConfigChange([host EXCEPT !.pane.config = edited, !.paneTimers = timers],
                                     host.pane.ready, serializeConfig(edited), "edit")
       IN  /\ host' = out.host
           /\ toWidget' = Post(toWidget, out.posted)
           /\ note' = Note("sent", Sent(ParamsUpdate(out.host.config), "edit", out.host.config, Null))
    /\ ghost' = [ghost EXCEPT !.edits = @ + 1, !.edited = TRUE]
    /\ calls' = <<>>
  /\ UNCHANGED <<rt, last, received, widget, toHost>>

WebEnterReviewMode ==
  /\ host.kind = "web" /\ host.submission # Null /\ ~host.isReviewMode
  /\ LET item == Sent(ParamsUpdate(ReviewPayload(host.config, host.submission)),
                      "review", host.config, ghost.lastSubmit)
         out == WebSendMessage([host EXCEPT !.isReviewMode = TRUE], host.iframeReady, item)
     IN  /\ host' = out.host
         /\ toWidget' = Post(toWidget, out.posted)
         /\ note' = Note("sent", item)
  /\ ghost' = [ghost EXCEPT !.reviewConfig = host.config, !.edited = FALSE]
  /\ calls' = <<>>
  /\ UNCHANGED <<rt, last, received, widget, toHost>>

\* exitReviewMode of the web host: the iframe is pointed at "" and, 50 ms
\* later, back at the widget; nothing is sent.  The page that was showing is
\* gone, with its runtime and the messages it had not handled.  A user needs
\* more than the 50 ms for the next click.
WebExitReviewMode ==
  /\ host.kind = "web" /\ host.submission # Null /\ host.isReviewMode
  /\ ~host.reloadTimer
  /\ host' = [host EXCEPT !.isReviewMode = FALSE, !.submission = Null,
                          !.reloadTimer = TRUE, !.loadTimers = @ + 1]
  /\ widget' = [WidgetLoading EXCEPT !.phase = "blank"]
  /\ rt' = RuntimeInit
  /\ calls' = <<>>
  /\ toWidget' = <<>>
  /\ note' = Note("exit", Idle)
  /\ ghost' = [ghost EXCEPT !.exited = TRUE]
  /\ UNCHANGED <<last, received, toHost>>

\* the 50 ms timer of exitReviewMode: the iframe loads the widget again
WebReloadTimer ==
  /\ host.kind = "web" /\ host.reloadTimer
  /\ host' = [host EXCEPT !.reloadTimer = FALSE]
  /\ widget' = WidgetLoading
  /\ note' = Quiet
  /\ calls' = <<>>
  /\ UNCHANGED <<rt, last, received, toWidget, toHost, ghost>>

NextSystem ==
  \/ WidgetBoot
  \/ WidgetReadyTimer
  \/ WidgetSchemaTimer
  \/ WidgetReceive
  \/ WidgetSubmit
  \/ MobileHandleMessage
  \/ MobileSendTimer
  \/ MobileEnterReviewMode
  \/ MobileExitReviewMode
  \/ WebHandleMessage
  \/ WebLoadTimer
  \/ WebPaneTimer
  \/ WebPaneEdit
  \/ WebEnterReviewMode
  \/ WebExitReviewMode
  \/ WebReloadTimer

Spec == InitSystem /\ [][NextSystem]_vars

\* the mobile host alone; the WebView runs every script injected into it
InitMobile == InitSystem /\ host.kind = "mobile"

NextMobile ==
  \/ WidgetBoot
  \/ WidgetReadyTimer
  \/ WidgetSchemaTimer
  \/ WidgetReceive
  \/ WidgetSubmit
  \/ MobileHandleMessage
  \/ MobileSendTimer
  \/ MobileEnterReviewMode
  \/ MobileExitReviewMode

\* the page takes the oldest message on its way to it
Delivery == Running /\ toWidget # <<>> /\ toWidget' = Tail(toWidget)

SpecMobile == InitMobile /\ [][NextMobile]_vars /\ WF_toWidget(Delivery)


---------------------------------------------------------------------------
(* Properties of the hosts and the widget together *)

HostGotSubmit == note.kind = "handled" /\ note.item.message.type = "SUBMIT"
Delivered(origin) == note.kind = "delivered" /\ note.item.origin = origin

\* C4: when the host has handled the SUBMIT of an answer A, its submission
\* holds A; and when the review request the host then issued has been handled
\* by the runtime, every answer subscriber was called with A and every
\* parameter subscriber with the configuration the host held, without __answer.
C4_ReviewDeliversSubmission ==
  /\ HostGotSubmit => host.submission.answer = ghost.lastSubmit
  /\ Delivered("review") =>
       /\ AnswerCalls = OneCallEach("answer", rt.answerListeners, note.item.answer)
       /\ ParamsCalls = OneCallEach("params", rt.paramsListeners, note.item.config)


ReviewSent == note.kind = "sent" /\ note.item.origin = "review"

\* C5: a step that sends a review request is taken by a host that holds a
\* submission, the one of the most recently received SUBMIT; the request is a
\* PARAMS_UPDATE whose payload is the host's configuration plus __answer, set to
\* that submission's answer; no value in the payload is the submission, its
\* evaluation or its score.
C5_ReviewRequestCarriesAnswerOnly ==
  [][ReviewSent' =>
       LET payload == note'.item.message.payload
       IN  /\ host.submission # Null
           /\ ghost.lastSubmit # NoUpdate
           /\ host.submission.answer = ghost.lastSubmit
           /\ note'.item.message.type = "PARAMS_UPDATE"
           /\ payload = WithKey(host.config, AnswerKey, ghost.lastSubmit)
           /\ DOMAIN payload = (DOMAIN host.config) \cup {AnswerKey}
           /\ \A k \in DOMAIN payload :
                payload[k] \notin {Obj(host.submission), host.submission.evaluation,
                                   host.submission.evaluation.fields.score}]_vars

C5_Witness ==
  /\ ReviewSent
  /\ ghost.submits = 2
  /\ toHost = <<>>
  /\ DOMAIN host.config # {}
  /\ note.item.message.payload[AnswerKey] = Obj([selected |-> Str(<<"DQ">>)])


ExitSent == host.kind = "mobile" /\ note.kind = "sent" /\ note.item.origin = "exit"
ExitHandled == note.kind \in {"delivered", "dropped"} /\ note.item.origin = "exit"

\* C6: the mobile host's exit-review request is a PARAMS_UPDATE whose payload is
\* the host's configuration, without __answer; the widget comes to handle it,
\* and then the runtime holds no initial answer; a runtime that held one has
\* told every answer subscriber null.
C6_MobileExitClearsAnswer ==
  /\ [](ExitSent => /\ note.item.message = ParamsUpdate(host.config)
                    /\ ~HasAnswer(note.item.message.payload)
                    /\ toWidget # <<>> /\ toWidget[Len(toWidget)] = note.item)
  /\ (ExitSent ~> (ExitHandled /\ rt.initialAnswer = Null))
  /\ [](ExitHandled => rt.initialAnswer = Null)
  /\ [][(ExitHandled' /\ rt.initialAnswer # Null) =>
          /\ note'.kind = "delivered"
          /\ AnswerCalls' = OneCallEach("answer", rt'.answerListeners, Null)]_vars

C6_Witness ==
  /\ host.kind = "mobile"
  /\ note.kind = "delivered" /\ note.item.origin = "exit"
  /\ DOMAIN rt.params # {}
  /\ AnswerCalls = <<Call("answer", "cb2", Null)>>


\* the messages the web host has sent or queued and the page has not handled
Outbound == toWidget \o host.queue

\* C7 as stated: the web host's exit-review request sends a PARAMS_UPDATE whose
\* payload is the configuration the host held when review mode was entered,
\* without __answer; and, the user not having touched the pane since, that
\* configuration is the first tree the widget shows after review mode is left.
C7_WebExitResendsConfig ==
  /\ note.kind = "exit" =>
       \E i \in 1..Len(Outbound) : Outbound[i].message = ParamsUpdate(ghost.reviewConfig)
  /\ (note.kind = "delivered" /\ note.item.afterExit /\ ~ghost.edited) =>
       widget.wrapperParams = ghost.reviewConfig


---------------------------------------------------------------------------
(* The useSubmission hook.  An object is a value with a ref: two objects are *)
(* the same to Object.is when they are one object, so = on values with refs  *)
(* is Object.is.  React renders, and runs the effects of, a state change     *)
(* before the next event is handled.                                         *)

\* setAnswer calls, inbound messages and submit calls in one behaviour
MaxHookSteps == 4

Undefined == [tag |-> "undefined"]

\* the object a parse, a structured clone or a literal creates: a new one
WithRef(v, n) == IF v.tag = "obj" THEN [tag |-> "obj", fields |-> v.fields, ref |-> n] ELSE v

\* the values the component passes to setAnswer
UserAnswers == {Str(<<"a">>), Str(<<>>), Obj([selected |-> Str(<<"a">>)])}

\* the payloads the host sends while the component is studied
HookPayloads ==
  LET tree == [title |-> Str(<<"a">>)]
  IN  {tree} \cup {WithKey(tree, AnswerKey, a) : a \in AnswerInputs}

\* getInitialAnswer() || undefined, and the subscriber's null to undefined
OrUndefined(v) == IF Truthy(v) THEN v ELSE Undefined
NullToUndefined(v) == IF v \in {Null, Undefined} THEN Undefined ELSE v

\* a render whose useMemo takes an evaluate that throws as one that returned
Render_IgnoresThrow(h) ==
  LET recompute == ~h.rendered \/ h.memoAnswer # h.answer \/ ~h.stableEvaluate
      computed == recompute /\ Truthy(h.answer)
      result == IF ~recompute THEN h.result
                ELSE IF computed THEN WithRef(Evaluation, h.nextRef) ELSE Null
      isLocked == h.initialAnswer # Undefined
      keep == h.rendered /\ h.submitFn.answer = h.answer /\ h.submitFn.result = result
  IN  [h EXCEPT !.rendered = TRUE, !.result = result, !.memoAnswer = h.answer,
                !.nextRef = IF computed THEN @ + 1 ELSE @,
                !.submitFn = IF keep THEN @
                             ELSE [answer |-> h.answer, result |-> result, isLocked |-> isLocked]]

\* one render of the hook: useMemo recomputes result when answer or
\* config.evaluate changed; useCallback keeps the submit it has unless answer
\* or result changed, and a kept submit sees the isLocked of the render that
\* made it
Render(h) ==
  LET recompute == ~h.rendered \/ h.memoAnswer # h.answer \/ ~h.stableEvaluate
      computed == recompute /\ Truthy(h.answer) /\ ~h.evaluateThrows
      result == IF ~recompute THEN h.result
                ELSE IF computed THEN WithRef(Evaluation, h.nextRef) ELSE Null
      isLocked == h.initialAnswer # Undefined
      keep == h.rendered /\ h.submitFn.answer = h.answer /\ h.submitFn.result = result
  IN  [h EXCEPT !.rendered = TRUE, !.result = result, !.memoAnswer = h.answer,
                !.nextRef = IF computed THEN @ + 1 ELSE @,
                !.submitFn = IF keep THEN @
                             ELSE [answer |-> h.answer, result |-> result, isLocked |-> isLocked]]

\* a render after a state change, the effect on [initialAnswer] when that
\* changed, and the render its setAnswer causes when answer changed
Update(h) ==
  LET h1 == Render(h)
  IN  IF h1.effectDep = h1.initialAnswer THEN h1
      ELSE LET h2 == [h1 EXCEPT !.effectDep = h1.initialAnswer, !.answer = h1.initialAnswer]
           IN  IF h2.answer = h1.answer THEN h2 ELSE Render(h2)

\* the subscriber the hook passes to onAnswerChange, run on every call made
RECURSIVE OnAnswerCalls(_, _)
OnAnswerCalls(h, cs) ==
  IF cs = <<>> THEN h
  ELSE OnAnswerCalls(IF Head(cs).kind = "answer" /\ Head(cs).cb = "cb2"
                     THEN [h EXCEPT !.initialAnswer = NullToUndefined(Head(cs).value)]
                     ELSE h,
                     Tail(cs))

Unmounted(stable, throws) ==
  [mounted |-> FALSE, rendered |-> FALSE, stableEvaluate |-> stable, evaluateThrows |-> throws,
   initialAnswer |-> Undefined, answer |-> Undefined, effectDep |-> Undefined,
   result |-> Null, memoAnswer |-> Undefined,
   submitFn |-> [answer |-> Undefined, result |-> Null, isLocked |-> FALSE],
   isSubmitting |-> FALSE, nextRef |-> 1]

InitHook ==
  /\ \E stable \in BOOLEAN, throws \in BOOLEAN : widget = Unmounted(stable, throws)
  /\ rt = RuntimeInit
  /\ calls = <<>>
  /\ last = Op("init", "none", NoUpdate, NoUpdate, NoUpdate)
  /\ received = 0
  /\ host = Idle
  /\ toWidget = <<>>
  /\ toHost = <<>>
  /\ note = Quiet
  /\ ghost = [steps |-> 0]

\* the component mounts: the first render, then the effects, which subscribe
\* to the answer and set answer from the initialAnswer of that render
HookMount ==
  /\ ~widget.mounted
  /\ LET first == OrUndefined(rt.initialAnswer)
         h1 == Render([widget EXCEPT !.mounted = TRUE, !.initialAnswer = first,
                                     !.answer = first, !.effectDep = first])
         sub == onAnswerChange(rt, "cb2")
     IN  /\ rt' = sub.rt
         /\ calls' = sub.calls
         /\ widget' = Update(OnAnswerCalls(h1, sub.calls))
  /\ note' = Quiet
  /\ UNCHANGED <<last, received, host, toWidget, toHost, ghost>>

\* the component calls setAnswer
HookSetAnswer ==
  \E value \in UserAnswers :
    /\ widget.mounted /\ ~widget.isSubmitting
    /\ ghost.steps < MaxHookSteps
    /\ LET answer == WithRef(value, widget.nextRef)
           h1 == [widget EXCEPT !.answer = answer,
                                !.nextRef = IF value.tag = "obj" THEN @ + 1 ELSE @]
       IN  widget' = IF answer = widget.answer THEN widget ELSE Update(h1)
    /\ calls' = <<>>
    /\ note' = Quiet
    /\ ghost' = [ghost EXCEPT !.steps = @ + 1]
    /\ UNCHANGED <<rt, last, received, host, toWidget, toHost>>

\* a PARAMS_UPDATE reaches the runtime; the hook's subscriber, when called,
\* sets initialAnswer
HookReceive ==
  \E payload \in HookPayloads :
    /\ ghost.steps < MaxHookSteps /\ ~widget.isSubmitting
    /\ LET fresh == IF HasAnswer(payload)
                    THEN [payload EXCEPT ![AnswerKey] = WithRef(@, widget.nextRef)]
                    ELSE payload
           out == RuntimeOnMessage(rt, ParamsUpdate(fresh))
           h1 == [widget EXCEPT !.nextRef = @ + 1]
           h2 == OnAnswerCalls(h1, out.calls)
       IN  /\ rt' = out.rt
           /\ calls' = out.calls
           /\ widget' = IF h2.initialAnswer = h1.initialAnswer THEN h1 ELSE Update(h2)
    /\ note' = Quiet
    /\ ghost' = [ghost EXCEPT !.steps = @ + 1]
    /\ UNCHANGED <<last, received, host, toWidget, toHost>>

\* the component calls the submit the hook returned from its latest render:
\* unless it refuses it sets isSubmitting, hands the SUBMIT to the runtime and
\* waits for the promise, which is resolved already, so that its finally
\* block is the next thing to run on the page
HookSubmit ==
  /\ widget.mounted /\ ~widget.isSubmitting
  /\ ghost.steps < MaxHookSteps
  /\ LET f == widget.submitFn
         refused == ~Truthy(f.answer) \/ ~Truthy(f.result) \/ f.isLocked
     IN  /\ toHost' = IF refused THEN toHost
                      ELSE Append(toHost, [message |-> submit(f.answer, f.result)])
         /\ note' = Note("hookSubmit", [sent |-> ~refused])
         /\ widget' = IF refused THEN widget
                      ELSE Render([widget EXCEPT !.isSubmitting = TRUE])
  /\ calls' = <<>>
  /\ ghost' = [ghost EXCEPT !.steps = @ + 1]
  /\ UNCHANGED <<rt, last, received, host, toWidget>>

\* the finally block of submit: setIsSubmitting(false) and the render it causes
HookSettle ==
  /\ widget.isSubmitting
  /\ widget' = Render([widget EXCEPT !.isSubmitting = FALSE])
  /\ calls' = <<>>
  /\ note' = Quiet
  /\ UNCHANGED <<rt, last, received, host, toWidget, toHost, ghost>>

NextHook ==
  \/ HookMount
  \/ HookSetAnswer
  \/ HookReceive
  \/ HookSubmit
  \/ HookSettle

SpecHook == InitHook /\ [][NextHook]_vars

\* the same with the continuation of a resolved promise never left waiting
SpecHookLive == SpecHook /\ WF_vars(HookSettle)

\* C8: a call of the hook's submit made while the runtime holds an initial
\* answer that is not null sends no SUBMIT.
C8_LockedSubmitSendsNothing ==
  (note.kind = "hookSubmit" /\ rt.initialAnswer # Null) => ~note.item.sent

---------------------------------------------------------------------------
(* UniversalBridge and the runtime's public calls *)

\* inbound messages dispatched by the bridge, subscriptions made, in one
\* behaviour
MaxInbound == 2
MaxSubscribes == 3

\* consecutive builds of the schema from the same builders
MaxBuilds == 2

\* the host interfaces sendToHost looks for, in the order it looks for them
Transports == <<"parent", "ReactNativeWebView", "FlutterChannel", "Android", "widgetHandler">>

TransportSets == SUBSET {Transports[i] : i \in 1..Len(Transports)}

\* one postMessage call: window.parent gets the message object, every other
\* interface gets the JSON text, shown here as the message that text decodes to
Dispatch(transport, message) ==
  [transport |-> transport,
   wire |-> IF transport = "parent" THEN "object" ELSE "json",
   message |-> IF transport = "parent" THEN message ELSE WidgetToHost("mobile", message).message]

\* a sendToHost that looks for ReactNativeWebView before the parent frame
sendToHost_NativeFirst(transports, message) ==
  IF "ReactNativeWebView" \in transports
  THEN [dispatched |-> <<Dispatch("ReactNativeWebView", message)>>, warned |-> FALSE]
  ELSE IF "parent" \in transports
  THEN [dispatched |-> <<Dispatch("parent", message)>>, warned |-> FALSE]
  ELSE IF "FlutterChannel" \in transports
  THEN [dispatched |-> <<Dispatch("FlutterChannel", message)>>, warned |-> FALSE]
  ELSE IF "Android" \in transports
  THEN [dispatched |-> <<Dispatch("Android", message)>>, warned |-> FALSE]
  ELSE IF "widgetHandler" \in transports
  THEN [dispatched |-> <<Dispatch("widgetHandler", message)>>, warned |-> FALSE]
  ELSE [dispatched |-> <<>>, warned |-> TRUE]

\* a sendToHost that says nothing when it finds no host interface
sendToHost_Silent(transports, message) ==
  IF transports = {} THEN [dispatched |-> <<>>, warned |-> FALSE]
  ELSE [dispatched |-> <<Dispatch(Transports[CHOOSE i \in 1..Len(Transports) :
                                   Transports[i] \in transports
                                     /\ \A j \in 1..(i - 1) : Transports[j] \notin transports],
                                 message)>>,
        warned |-> FALSE]

\* UniversalBridge.sendToHost: what it posts and whether it warns
sendToHost(transports, message) ==
  IF "parent" \in transports
  THEN [dispatched |-> <<Dispatch("parent", message)>>, warned |-> FALSE]
  ELSE IF "ReactNativeWebView" \in transports
  THEN [dispatched |-> <<Dispatch("ReactNativeWebView", message)>>, warned |-> FALSE]
  ELSE IF "FlutterChannel" \in transports
  THEN [dispatched |-> <<Dispatch("FlutterChannel", message)>>, warned |-> FALSE]
  ELSE IF "Android" \in transports
  THEN [dispatched |-> <<Dispatch("Android", message)>>, warned |-> FALSE]
  ELSE IF "widgetHandler" \in transports
  THEN [dispatched |-> <<Dispatch("widgetHandler", message)>>, warned |-> FALSE]
  ELSE [dispatched |-> <<>>, warned |-> TRUE]

\* WidgetRuntime.emitEvent: the message it sends
emitEvent(eventName, data) == [type |-> "EVENT", event |-> eventName, payload |-> data]

\* WidgetRuntime.submit: the submission its promise resolves with
submitResolves(answer, evaluation) == submit(answer, evaluation).payload

\* a call of the runtime that sends: the messages it hands to the bridge and
\* what it returns
SendCall(api, args, handed, resolved) ==
  [api |-> api, args |-> args, handed |-> handed, resolved |-> resolved]

\* what a widget's evaluate may return: isCorrect, score and maxScore are
\* whatever the widget's own code computes
Evaluations ==
  {Evaluation,
   Obj([isCorrect |-> Bool(TRUE), score |-> Num(2), maxScore |-> Num(1)]),
   Obj([isCorrect |-> Bool(FALSE), score |-> Num(-1), maxScore |-> Num(1)])}

SendCalls ==
  {SendCall("submit", [answer |-> a, evaluation |-> e],
            <<submit(a, e)>>, submitResolves(a, e)) : a \in SubmitAnswers, e \in Evaluations}
    \cup {SendCall("emitEvent", [eventName |-> "onComplete", data |-> EmptyTree],
                   <<emitEvent("onComplete", EmptyTree)>>, Undefined)}
    \cup {SendCall("ready", EmptyTree, <<ReadySignal>>, Undefined)}

\* a value rather than an object with named properties
IsValue(x) == "tag" \in DOMAIN x

\* event.data of a message event, or what JSON.parse returned
WellFormedData == {ParamsUpdate(p) : p \in {[title |-> Str(<<"a">>)],
                                            [title |-> Str(<<"a">>), __answer |-> Str(<<"DQ">>)]}}
MalformedData ==
  {Null, [payload |-> EmptyTree], [type |-> "PARAMS_UPDATE"],
   [type |-> "PARAMS_UPDATE", payload |-> Str(<<"a">>)]}
BridgeData == WellFormedData \cup MalformedData

\* the argument of handleMessageFromNative: text that is not JSON, or the
\* JSON text of a value
Undecodable == [json |-> FALSE]
JsonText(data) == [json |-> TRUE, data |-> data]
NativeTexts == {Undecodable} \cup {JsonText(d) : d \in BridgeData}

\* JSON.parse of the JSON text of data
JsonParse(text) ==
  LET d == text.data
  IN  IF IsValue(d) THEN WireValue("json", d).value
      ELSE IF "payload" \in DOMAIN d /\ ~IsValue(d.payload) THEN WireMessage("json", d).message
      ELSE IF "payload" \in DOMAIN d THEN [d EXCEPT !.payload = WireValue("json", @).value]
      ELSE d

\* the outcome of one listener, or of a dispatch: threw says that a listener
\* threw, delivered names the listeners invoked
Outcome(r, c, delivered, threw) ==
  [rt |-> r, calls |-> c, delivered |-> delivered, threw |-> threw]

\* the listener WidgetRuntime.init registers, on any data: reading a property
\* of null or undefined throws a TypeError
RuntimeListener(r, data) ==
  IF IsValue(data)
  THEN Outcome(r, <<>>, <<"runtime">>, data.tag \in {"null", "undefined"})
  ELSE IF "type" \notin DOMAIN data \/ data.type # "PARAMS_UPDATE"
  THEN Outcome(r, <<>>, <<"runtime">>, FALSE)
  ELSE IF "payload" \notin DOMAIN data
          \/ (IsValue(data.payload) /\ data.payload.tag \in {"null", "undefined"})
  THEN Outcome(r, <<>>, <<"runtime">>, TRUE)
  ELSE LET out == RuntimeOnMessage(r, data)
       IN  Outcome(out.rt, out.calls, <<"runtime">>, FALSE)

\* the listeners of the bridge: the runtime's, one that returns, one that throws
BridgeCbs == {"runtime", "l1", "bad"}

Listener(l, r, data) ==
  IF l = "runtime" THEN RuntimeListener(r, data)
  ELSE Outcome(r, <<>>, <<l>>, l = "bad")

\* this.listeners.forEach((cb) => cb(data)) from the i-th listener on: an
\* exception ends the loop
RECURSIVE forEachListener(_, _, _, _)
forEachListener(listeners, i, r, data) ==
  IF i > Len(listeners) THEN Outcome(r, <<>>, <<>>, FALSE)
  ELSE LET one == Listener(listeners[i], r, data)
       IN  IF one.threw THEN one
           ELSE LET rest == forEachListener(listeners, i + 1, one.rt, data)
                IN  Outcome(rest.rt, one.calls \o rest.calls,
                            one.delivered \o rest.delivered, rest.threw)

\* the window "message" listener: nothing catches what a listener throws
onWindowMessage(listeners, r, data) ==
  [out |-> forEachListener(listeners, 1, r, data),
   escaped |-> forEachListener(listeners, 1, r, data).threw]

\* window.handleMessageFromNative: one try block around the parse and the loop
handleMessageFromNative(listeners, r, text) ==
  IF ~text.json THEN [out |-> Outcome(r, <<>>, <<>>, TRUE), escaped |-> FALSE]
  ELSE [out |-> forEachListener(listeners, 1, r, JsonParse(text)), escaped |-> FALSE]

\* UniversalBridge.onMessageFromHost and the function it returns
onMessageFromHost(listeners, cb) == SetAdd(listeners, cb)
unsubscribeBridge(listeners, cb) == SetDelete(listeners, cb)

\* what a subscription is made on, and with which callback
Targets == {<<"bridge", "l1">>, <<"bridge", "bad">>, <<"params", "cb1">>, <<"answer", "cb2">>}

\* the logical time: the bounded steps taken so far
Now == ghost.subs + ghost.inbound

\* the page after the bridge is constructed and WidgetRuntime.init has run,
\* with the host interfaces ts present
BridgeLoaded(ts) ==
  /\ widget = [listeners |-> <<"runtime">>, transports |-> ts]
  /\ rt = RuntimeInit
  /\ calls = <<>>
  /\ last = Op("init", "none", NoUpdate, NoUpdate, NoUpdate)
  /\ received = 0
  /\ host = Idle
  /\ toWidget = <<>>
  /\ toHost = <<>>
  /\ note = Quiet
  /\ ghost = [subs |-> 0, inbound |-> 0, active |-> [t \in Targets |-> 0]]

\* inbound: the page inside a frame or inside a native WebView
InitBridge == \E ts \in {{"parent"}, {"ReactNativeWebView"}} : BridgeLoaded(ts)

\* outbound: any combination of host interfaces
InitSend == \E ts \in TransportSets : BridgeLoaded(ts)

\* a subscription: active counts the subscriptions whose unsubscribe function
\* has not been called
BridgeSubscribe ==
  \E t \in Targets :
    /\ ghost.subs < MaxSubscribes
    /\ ghost.active[t] < 2
    /\ ghost' = [ghost EXCEPT !.subs = @ + 1, !.active[t] = @ + 1]
    /\ CASE t[1] = "bridge" ->
              /\ widget' = [widget EXCEPT !.listeners = onMessageFromHost(@, t[2])]
              /\ calls' = <<>>
              /\ rt' = rt
         [] t[1] = "params" ->
              /\ rt' = onParamsChange(rt, t[2]).rt
              /\ calls' = onParamsChange(rt, t[2]).calls
              /\ widget' = widget
         [] t[1] = "answer" ->
              /\ rt' = onAnswerChange(rt, t[2]).rt
              /\ calls' = onAnswerChange(rt, t[2]).calls
              /\ widget' = widget
    /\ note' = Note("subscribe", [target |-> t])
    /\ UNCHANGED <<last, received, host, toWidget, toHost>>

\* the unsubscribe function of a subscription that is still active is called
BridgeUnsubscribe ==
  \E t \in Targets :
    /\ ghost.active[t] > 0
    /\ ghost' = [ghost EXCEPT !.active[t] = @ - 1]
    /\ CASE t[1] = "bridge" ->
              /\ widget' = [widget EXCEPT !.listeners = unsubscribeBridge(@, t[2])]
              /\ rt' = rt
         [] t[1] = "params" ->
              /\ rt' = unsubscribeParams(rt, t[2])
              /\ widget' = widget
         [] t[1] = "answer" ->
              /\ rt' = unsubscribeAnswer(rt, t[2])
              /\ widget' = widget
    /\ calls' = <<>>
    /\ note' = Note("unsubscribe", [target |-> t])
    /\ UNCHANGED <<last, received, host, toWidget, toHost>>

\* what a dispatch did: the data handed to the listeners (Undecodable when
\* there was none), the listeners invoked, whether one threw, whether the
\* exception left the dispatch
Inbound(path, data, d) ==
  Note("inbound", [path |-> path, data |-> data, delivered |-> d.out.delivered,
                   threw |-> d.out.threw, escaped |-> d.escaped])

\* a message event on the window
BridgeWindowMessage ==
  \E data \in BridgeData :
    /\ ghost.inbound < MaxInbound
    /\ LET d == onWindowMessage(widget.listeners, rt, data)
       IN  /\ rt' = d.out.rt
           /\ calls' = d.out.calls
           /\ note' = Inbound("window", data, d)
    /\ ghost' = [ghost EXCEPT !.inbound = @ + 1]
    /\ UNCHANGED <<last, received, host, widget, toWidget, toHost>>

\* the native host calls handleMessageFromNative
BridgeNativeMessage ==
  \E text \in NativeTexts :
    /\ ghost.inbound < MaxInbound
    /\ LET d == handleMessageFromNative(widget.listeners, rt, text)
       IN  /\ rt' = d.out.rt
           /\ calls' = d.out.calls
           /\ note' = Inbound("native", IF text.json THEN JsonParse(text) ELSE Undecodable, d)
    /\ ghost' = [ghost EXCEPT !.inbound = @ + 1]
    /\ UNCHANGED <<last, received, host, widget, toWidget, toHost>>

\* submit, emitEvent or the ready signal: each hands its messages to
\* sendToHost and returns
BridgeSend ==
  \E c \in SendCalls :
    /\ note' = Note("send", [call |-> c, at |-> Now,
                             sent |-> sendToHost(widget.transports, c.handed[1])])
    /\ calls' = <<>>
    /\ UNCHANGED <<rt, last, received, host, widget, toWidget, toHost, ghost>>

\* The runtime alone, under inbound messages, subscriptions and sending calls

\* submit, emitEvent or sendToHost is called, in a page with no host
\* interface or inside a frame: payload keeps the messages handed to the
\* bridge and the ones posted
RuntimeSend ==
  \E c \in {x \in SendCalls : x.api = "submit" => x.args = [answer |-> Str(<<"a">>),
                                                            evaluation |-> Evaluation]},
     ts \in {{}, {"parent"}} :
    /\ calls' = <<>>
    /\ last' = Op(c.api, "none",
                  [call |-> c, transports |-> ts,
                   posted |-> sendToHost(ts, c.handed[1]).dispatched],
                  last.lastUpdate, last.lastUpdate)
    /\ UNCHANGED <<rt, received, sysvars>>

NextRuntime ==
  \/ Receive
  \/ RuntimeSend
  \/ SubscribeParams
  \/ SubscribeAnswer
  \/ UnsubscribeParams
  \/ UnsubscribeAnswer

SpecRuntime == InitRuntime /\ [][NextRuntime]_vars

\* the bridge and the runtime under inbound messages and subscriptions
NextBridge ==
  \/ BridgeSubscribe
  \/ BridgeUnsubscribe
  \/ BridgeWindowMessage
  \/ BridgeNativeMessage

SpecBridge == InitBridge /\ [][NextBridge]_vars

\* the runtime's sending calls, between inbound messages
NextSend ==
  \/ BridgeSend
  \/ BridgeWindowMessage

SpecSend == InitSend /\ [][NextSend]_vars

---------------------------------------------------------------------------
(* Properties of the bridge and of the runtime's subscriptions *)

\* the most recent step dispatched a well-formed PARAMS_UPDATE and no
\* listener threw
WellFormedInbound ==
  note.kind = "inbound" /\ note.item.data \in WellFormedData /\ ~note.item.threw

\* the callback of a subscription target was invoked by the most recent step
Notified(t) ==
  IF t[1] = "bridge" THEN \E i \in 1..Len(note.item.delivered) : note.item.delivered[i] = t[2]
  ELSE \E i \in 1..Len(calls) : calls[i].kind = t[1] /\ calls[i].cb = t[2]

\* C11: when a well-formed PARAMS_UPDATE is dispatched, a callback is invoked
\* exactly when at least one subscription made with it has not been
\* unsubscribed: an unsubscribed subscription is silent, and every other one,
\* one made with the same callback function included, still receives (answer
\* subscribers are looked at when the payload carries an answer).
C11_UnsubscribeSilencesOnlyItself ==
  WellFormedInbound =>
    \A t \in Targets :
      (t[1] = "answer" => HasAnswer(note.item.data.payload))
        => (Notified(t) <=> ghost.active[t] > 0)

\* C17: a dispatch invokes every registered listener, in registration order,
\* whether or not one of them throws, on the window path and on the native
\* path.
C17_ThrowingListenerIsIsolated ==
  (note.kind = "inbound" /\ note.item.data # Undecodable)
    => note.item.delivered = widget.listeners

\* C18: a dispatch of an undecodable or malformed message lets no exception
\* escape and leaves the parameter tree and the initial answer as they were;
\* a well-formed PARAMS_UPDATE dispatched at any time is processed.
C18_MalformedIsDropped ==
  [][ghost'.inbound = ghost.inbound + 1
       => /\ note'.item.data \in MalformedData \cup {Undecodable}
               => /\ ~note'.item.escaped
                  /\ rt'.params = rt.params
                  /\ rt'.initialAnswer = rt.initialAnswer
          /\ note'.item.data \in WellFormedData
               => rt'.params = WithoutKey(note'.item.data.payload, AnswerKey)]_vars

---------------------------------------------------------------------------
(* Properties of the runtime's sending calls *)

\* the most recent step was a call of submit
SubmitCalled == note.kind = "send" /\ note.item.call.api = "submit"

\* C12: a call of submit hands exactly one message to the bridge, a SUBMIT
\* whose payload is the submission made of the call's answer and evaluation,
\* and resolves with that submission in the same step, in which no message
\* from the host is handled; where a host interface exists the message is
\* posted once.
C12_SubmitSendsOnceAndResolves ==
  SubmitCalled =>
    LET c == note.item.call
        submission == [answer |-> c.args.answer, evaluation |-> c.args.evaluation]
        message == [type |-> "SUBMIT", payload |-> submission]
    IN  /\ c.handed = <<message>>
        /\ c.resolved = submission
        /\ widget.transports # {}
             => /\ Len(note.item.sent.dispatched) = 1
                /\ note.item.sent.dispatched[1].message = message

\* submit has resolved and no message from the host was ever handled
C12_Witness ==
  SubmitCalled /\ ghost.inbound = 0 /\ note.item.call.args.answer = Str(<<"BS", "n">>)

\* C13: the submission a call of submit builds has metadata whose timestamp
\* is the time of the call.
C13_SubmissionHasTimestamp ==
  SubmitCalled =>
    LET p == note.item.call.handed[1].payload
    IN  /\ "metadata" \in DOMAIN p
        /\ "timestamp" \in DOMAIN p.metadata
        /\ p.metadata.timestamp = Num(note.item.at)

\* the first host interface of ts in the order of Transports
FirstAvailable(ts) ==
  Transports[CHOOSE i \in 1..Len(Transports) :
               Transports[i] \in ts /\ \A j \in 1..(i - 1) : Transports[j] \notin ts]

\* C15: with at least one host interface present, a send posts the message
\* once, on the first interface present in the order parent frame,
\* ReactNativeWebView, FlutterChannel, Android, widgetHandler, and on no other.
C15_FirstTransportOnly ==
  (note.kind = "send" /\ widget.transports # {})
    => /\ Len(note.item.sent.dispatched) = 1
       /\ note.item.sent.dispatched[1].transport = FirstAvailable(widget.transports)
       /\ note.item.sent.dispatched[1].message = note.item.call.handed[1]
       /\ ~note.item.sent.warned

\* a send with several native interfaces present and no parent frame
C15_Witness ==
  /\ note.kind = "send"
  /\ widget.transports = {"FlutterChannel", "Android", "widgetHandler"}
  /\ note.item.sent.dispatched[1].transport = "FlutterChannel"

\* C16: with no host interface present, a send (by submit, emitEvent or the
\* ready signal) posts nothing, warns, and leaves the runtime and the bridge
\* as they were.
C16_NoTransportIsHarmless ==
  [][(note'.kind = "send" /\ widget.transports = {})
       => /\ note'.item.sent.dispatched = <<>>
          /\ note'.item.sent.warned
          /\ rt' = rt
          /\ widget' = widget]_vars

\* a send with no host interface, by a runtime that holds parameters
C16_Witness ==
  /\ note.kind = "send" /\ widget.transports = {}
  /\ note.item.call.api = "emitEvent"
  /\ rt.params # EmptyTree
  /\ note.item.sent.warned

---------------------------------------------------------------------------
(* Properties of the widget's messages, of repeated updates, of evaluations *)

\* C14: every WIDGET_READY the widget has sent carries the schema in its
\* payload.
C14_ReadyCarriesSchema ==
  \A i \in 1..Len(toHost) :
    toHost[i].message.type = "WIDGET_READY"
      => /\ "payload" \in DOMAIN toHost[i].message
         /\ "schema" \in DOMAIN toHost[i].message.payload


\* C19: when a PARAMS_UPDATE is followed at once by a PARAMS_UPDATE with the
\* same payload, the second leaves the parameter tree and the initial answer
\* as the first left them, calls the parameter subscribers with the same
\* values, and calls answer subscribers, if at all, with the answer held after
\* the first (with the same calls when the payload carries an answer).
C19_SameUpdateTwice ==
  [][(UpdateDone /\ received' = received + 1
        /\ last'.op = "PARAMS_UPDATE" /\ last'.payload = last.payload)
       => /\ rt'.params = rt.params
          /\ rt'.initialAnswer = rt.initialAnswer
          /\ ParamsCalls' = ParamsCalls
          /\ \A i \in 1..Len(AnswerCalls') : AnswerCalls'[i].value = rt.initialAnswer
          /\ HasAnswer(last.payload) => AnswerCalls' = AnswerCalls]_vars

\* the second of two equal updates with an answer has called both kinds of
\* subscriber
C19_Witness ==
  /\ UpdateDone /\ received = 2
  /\ last.prevUpdate = last.payload
  /\ HasAnswer(last.payload)
  /\ AnswerCalls # <<>>
  /\ ParamsCalls # <<>>


\* C20: the evaluation in the submission a call of submit sends has
\* 0 <= score <= maxScore.
C20_ScoreWithinBounds ==
  SubmitCalled =>
    LET e == note.item.call.handed[1].payload.evaluation.fields
    IN  0 <= e.score.n /\ e.score.n <= e.maxScore.n


\* C24: the callbacks a PARAMS_UPDATE makes are the answer notifications
\* followed by the parameter notifications: when answer subscribers are
\* notified, each is called once with the answer then held (the payload's
\* __answer, or null on leaving review) before any parameter subscriber is
\* called, and each parameter subscriber is called exactly once.
C24_AnswerBeforeParams ==
  UpdateDone =>
    /\ calls = AnswerCalls \o ParamsCalls
    /\ ParamsCalls = OneCallEach("params", rt.paramsListeners, rt.params)
    /\ AnswerCalls # <<>>
         => AnswerCalls = OneCallEach("answer", rt.answerListeners, rt.initialAnswer)

\* an update that leaves review with two subscribers of each kind
C24_Witness ==
  /\ UpdateDone
  /\ Len(AnswerCalls) = 2 /\ Len(ParamsCalls) = 2
  /\ rt.initialAnswer = Null


---------------------------------------------------------------------------
(* The schema builder and the hosts' functions on schemas and value trees *)

\* an array
Arr(items) == [tag |-> "arr", items |-> items]

\* param.string(default), param.select(options, default): the builder a
\* factory returns; an argument left out is the key left out
StringParam(default) ==
  [kind |-> "param",
   config |-> IF default = Undefined THEN [type |-> "string"]
              ELSE [type |-> "string", default |-> default]]

SelectParam(options, default) ==
  [kind |-> "param",
   config |-> IF default = Undefined THEN [type |-> "select", options |-> Arr(options)]
              ELSE [type |-> "select", default |-> default, options |-> Arr(options)]]

\* folder(title, fields)
FolderParam(title, fields) ==
  [kind |-> "folder", title |-> title, isExpanded |-> TRUE, fields |-> fields]

\* the parameters a widget hands to defineWidget
BuilderTrees ==
  LET a == Str(<<"a">>)
      n == Str(<<"n">>)
  IN  {[title |-> StringParam(a)],
       [title |-> StringParam(Undefined), mode |-> SelectParam(<<a, n>>, a)],
       [mode |-> SelectParam(<<a>>, n)],
       [mode |-> SelectParam(<<>>, Undefined), advanced |-> FolderParam("A", [sound |-> StringParam(n)])],
       [outer |-> FolderParam("O", [inner |-> FolderParam("I", [deep |-> StringParam(a)]),
                                    bare |-> FolderParam("B", [flag |-> StringParam(Undefined)])])]}

\* required() on a parameter, expanded(false) on a folder
ChainCallOn(b) ==
  IF b.kind = "folder" THEN [b EXCEPT !.isExpanded = FALSE]
  ELSE [b EXCEPT !.config = [k \in (DOMAIN b.config) \cup {"required"} |->
                               IF k = "required" THEN Bool(TRUE) ELSE b.config[k]]]

\* BaseParam.toSchema, FolderParam.toSchema
RECURSIVE toSchema(_)
toSchema(b) ==
  IF b.kind = "param" THEN b.config
  ELSE [type |-> "folder", title |-> b.title, expanded |-> b.isExpanded,
        fields |-> [k \in DOMAIN b.fields |-> toSchema(b.fields[k])]]

\* defineWidget's buildSchema with the builders as it leaves them
buildSchema_Collapses(params) ==
  [schema |-> [k \in DOMAIN params |-> toSchema(params[k])],
   params |-> [k \in DOMAIN params |-> ChainCallOn(params[k])]]

buildSchema(params) ==
  [schema |-> [k \in DOMAIN params |-> toSchema(params[k])], params |-> params]

\* the flat defineWidget: flatDefaults, keyed by the parts of the dot-path; the
\* fields of a top-level folder are walked, folders below them are not
FlatDefaults(schema) ==
  LET HasDefault(field) == ~IsFolder(field) /\ "default" \in DOMAIN field
      top == {<<k>> : k \in {x \in DOMAIN schema : HasDefault(schema[x])}}
      below(k) == {<<k, f>> : f \in {x \in DOMAIN schema[k].fields :
                                       "default" \in DOMAIN schema[k].fields[x]}}
      nested == UNION {below(k) : k \in {x \in DOMAIN schema : IsFolder(schema[x])}}
  IN  [p \in top \cup nested |->
         IF Len(p) = 1 THEN schema[p[1]].default ELSE schema[p[1]].fields[p[2]].default]

\* flatToNested on dot-paths none of which is the beginning of another
RECURSIVE flatToNested(_)
flatToNested(flat) ==
  [h \in {p[1] : p \in DOMAIN flat} |->
     IF <<h>> \in DOMAIN flat THEN flat[<<h>>]
     ELSE Obj(flatToNested([q \in {Tail(p) : p \in {x \in DOMAIN flat : x[1] = h}} |->
                              flat[<<h>> \o q]]))]

\* TweakpaneBuilder.getConfigValue, from the value reached so far
RECURSIVE getConfigValue(_, _)
getConfigValue(value, parts) ==
  IF parts = <<>> THEN value
  ELSE IF value.tag = "obj" /\ Head(parts) \in DOMAIN value.fields
  THEN getConfigValue(value.fields[Head(parts)], Tail(parts))
  ELSE Undefined

\* a checkVisibility that looks at notEquals first
checkVisibility_NotEqualsFirst(config, visibleIf) ==
  IF visibleIf = Undefined THEN TRUE
  ELSE LET value == getConfigValue(Obj(config), visibleIf.param)
       IN  IF "notEquals" \in DOMAIN visibleIf THEN value # visibleIf.notEquals
           ELSE IF "equals" \in DOMAIN visibleIf THEN value = visibleIf.equals
           ELSE IF "in" \in DOMAIN visibleIf
           THEN \E i \in 1..Len(visibleIf["in"]) : visibleIf["in"][i] = value
           ELSE TRUE

\* TweakpaneBuilder.checkVisibility
checkVisibility(config, visibleIf) ==
  IF visibleIf = Undefined THEN TRUE
  ELSE LET value == getConfigValue(Obj(config), visibleIf.param)
       IN  IF "equals" \in DOMAIN visibleIf THEN value = visibleIf.equals
           ELSE IF "notEquals" \in DOMAIN visibleIf THEN value # visibleIf.notEquals
           ELSE IF "in" \in DOMAIN visibleIf
           THEN \E i \in 1..Len(visibleIf["in"]) : visibleIf["in"][i] = value
           ELSE TRUE

\* value trees handed to deepMerge and to checkVisibility
ValueTrees ==
  LET a == Str(<<"a">>)
      n == Str(<<"n">>)
  IN  {EmptyTree, [mode |-> a], [mode |-> n, extra |-> Null], [mode |-> Arr(<<a>>)],
       [mode |-> Obj([sound |-> a])], [mode |-> Obj([sound |-> n, level |-> Num(0)])],
       [mode |-> Obj([sound |-> Obj([on |-> Bool(TRUE)])]), extra |-> a]}

\* visibleIf conditions: every set of predicates on two paths
Conditions ==
  LET a == Str(<<"a">>)
      all == [equals |-> a, notEquals |-> a, in |-> <<Str(<<"n">>), Undefined>>]
  IN  {Undefined} \cup
      {[k \in ks \cup {"param"} |-> IF k = "param" THEN path ELSE all[k]] :
         ks \in SUBSET {"equals", "notEquals", "in"},
         path \in {<<"mode">>, <<"mode", "sound">>, <<"extra", "sound">>}}

InitSchema ==
  /\ \E params \in BuilderTrees : widget = [params |-> params, calls |-> 0]
  /\ note = Quiet
  /\ rt = Idle /\ calls = <<>> /\ last = Idle /\ received = 0
  /\ host = Idle /\ toWidget = <<>> /\ toHost = <<>> /\ ghost = Idle

\* a chain call on one of the builders
SchemaChainCall ==
  \E k \in DOMAIN widget.params :
    /\ widget' = [params |-> [widget.params EXCEPT ![k] = ChainCallOn(@)], calls |-> 0]
    /\ widget' # widget
    /\ note' = Quiet
    /\ UNCHANGED <<rt, calls, last, received, host, toWidget, toHost, ghost>>

\* the schema is built from the builders once more: the note keeps the
\* builders as they were before the call and the schema of the call before
SchemaBuild ==
  /\ widget.calls < MaxBuilds
  /\ LET out == buildSchema(widget.params)
     IN  /\ widget' = [params |-> out.params, calls |-> widget.calls + 1]
         /\ note' = Note("schema", [schema |-> out.schema, before |-> widget.params,
                                    previous |-> IF note.kind = "schema" THEN note.item.schema
                                                 ELSE Undefined,
                                    flat |-> FlatDefaults(out.schema),
                                    nested |-> flatToNested(FlatDefaults(out.schema)),
                                    mobile |-> extractDefaultsFromSchema(out.schema),
                                    web |-> SchemaProcessorDefaults(out.schema)])
  /\ UNCHANGED <<rt, calls, last, received, host, toWidget, toHost, ghost>>

\* the mobile host merges two trees
SchemaMerge ==
  \E target \in ValueTrees, source \in ValueTrees :
    /\ note' = Note("merge", [target |-> target, source |-> source,
                              output |-> deepMerge(target, source)])
    /\ UNCHANGED <<rt, calls, last, received, host, widget, toWidget, toHost, ghost>>

\* the pane decides whether a control is shown
SchemaVisibility ==
  \E config \in ValueTrees, visibleIf \in Conditions :
    /\ note' = Note("visible", [config |-> config, visibleIf |-> visibleIf,
                                visible |-> checkVisibility(config, visibleIf)])
    /\ UNCHANGED <<rt, calls, last, received, host, widget, toWidget, toHost, ghost>>

---------------------------------------------------------------------------
(* The pane's controls and the schema field each of them is looked up as *)

\* schemas a pane is built from: mode decides whether the other controls show
PaneSchemas ==
  LET a == Str(<<"a">>)
      cond == [param |-> <<"mode">>, equals |-> Str(<<"n">>)]
      mode == [type |-> "select", default |-> a, options |-> Arr(<<a, Str(<<"n">>)>>)]
      shown(type, default) == [type |-> type, default |-> default, visibleIf |-> cond]
  IN  {[mode |-> mode, sound |-> shown("boolean", Bool(FALSE))],
       [mode |-> mode,
        advanced |-> [type |-> "folder", title |-> "A", expanded |-> TRUE, visibleIf |-> cond,
                      fields |-> [sound |-> shown("boolean", Bool(FALSE))]]],
       [mode |-> mode,
        header |-> [type |-> "folder", title |-> "H", expanded |-> FALSE,
                    fields |-> [title |-> shown("string", a),
                                expanded |-> shown("boolean", Bool(TRUE))]]],
       [mode |-> mode,
        header |-> [type |-> "folder", title |-> "", expanded |-> TRUE,
                    fields |-> [title |-> shown("string", a),
                                gauge |-> shown("gauge", a)]]]}

\* the field types buildControl has a case for
ControlTypes == {"string", "number", "boolean", "color", "image", "select"}

\* the keys of controlsMap after build: every folder, every control of a known
\* type, by the parts of its dot-path
RECURSIVE ControlPaths(_)
ControlPaths(schema) ==
  UNION {IF IsFolder(schema[k])
         THEN {<<k>>} \cup {<<k>> \o p : p \in ControlPaths(schema[k].fields)}
         ELSE IF schema[k].type \in ControlTypes THEN {<<k>>} ELSE {}
         : k \in DOMAIN schema}

\* a property of a field's schema entry that is truthy
TruthyProperty(field, part) ==
  /\ part \in DOMAIN field
  /\ CASE part \in {"type", "title", "label"} -> field[part] # ""
       [] part = "expanded" -> field[part]
       [] part = "default" -> Truthy(field[part])
       [] OTHER -> TRUE

\* TweakpaneBuilder.getFieldFromPath for a path of controlsMap: at each part
\* current[part] is taken when it is truthy, current.fields[part] otherwise;
\* the result is a field of the schema, another value (a property of a field's
\* entry) or null.  No field of the schemas here is named fields or visibleIf.
RECURSIVE getFieldFromPath(_, _, _)
getFieldFromPath(current, parts, atRoot) ==
  IF parts = <<>> THEN [kind |-> "field", field |-> current]
  ELSE LET part == Head(parts)
       IN  IF atRoot
           THEN IF part \in DOMAIN current
                THEN getFieldFromPath(current[part], Tail(parts), FALSE)
                ELSE [kind |-> "null"]
           ELSE IF TruthyProperty(current, part)
           THEN IF Tail(parts) = <<>> THEN [kind |-> "value"] ELSE [kind |-> "null"]
           ELSE IF "fields" \in DOMAIN current /\ part \in DOMAIN current.fields
           THEN getFieldFromPath(current.fields[part], Tail(parts), FALSE)
           ELSE [kind |-> "null"]

\* updateVisibility over controlsMap: hidden is assigned for a control whose
\* looked-up field has a condition, and is left as it was for any other
updateVisibilityAll(schema, config, hidden) ==
  [p \in ControlPaths(schema) |->
     LET found == getFieldFromPath(schema, p, TRUE)
     IN  IF found.kind = "field" /\ "visibleIf" \in DOMAIN found.field
         THEN ~checkVisibility(config, found.field.visibleIf)
         ELSE hidden[p]]

\* a pane is built from a schema (no control hidden, then updateVisibility on
\* the defaults), the user sets mode, and the change handler runs
\* updateVisibility and then serializes the tree and hands it to onChange
SchemaPaneChange ==
  \E schema \in PaneSchemas, mode \in {Str(<<"a">>), Str(<<"n">>)} :
    LET defaults == SchemaProcessorDefaults(schema)
        built == updateVisibilityAll(schema, defaults,
                                     [p \in ControlPaths(schema) |-> FALSE])
        config == [defaults EXCEPT !["mode"] = mode]
        hidden == updateVisibilityAll(schema, config, built)
    IN  /\ note' = Note("change", [schema |-> schema, config |-> config, hidden |-> hidden,
                                   payload |-> serializeConfig(config)])
        /\ UNCHANGED <<rt, calls, last, received, host, widget, toWidget, toHost, ghost>>

NextSchema ==
  \/ SchemaChainCall
  \/ SchemaBuild
  \/ SchemaMerge
  \/ SchemaVisibility
  \/ SchemaPaneChange

SpecSchema == InitSchema /\ [][NextSchema]_vars

---------------------------------------------------------------------------
(* Properties of the builder and of the functions on schemas and trees *)

C22_FlattenThenNest ==
  note.kind = "schema" => note.item.nested = note.item.mobile

\* C23: every select field of a built schema has options that are not empty
\* and, when it has a default, a default that is one of the options.
C23_SelectDefaultIsAnOption ==
  note.kind = "schema" =>
    \A k \in DOMAIN note.item.schema :
      LET field == note.item.schema[k]
      IN  field.type = "select"
            => /\ field.options.items # <<>>
               /\ "default" \in DOMAIN field
                    => \E i \in 1..Len(field.options.items) :
                         field.options.items[i] = field.default

\* tree is the default tree of schema: a folder with fields maps to the
\* default tree of its fields, a control with a default maps to the default,
\* nothing else has a key
RECURSIVE IsDefaultTree(_, _)
IsDefaultTree(tree, schema) ==
  /\ DOMAIN tree = {k \in DOMAIN schema :
                      \/ IsFolder(schema[k]) /\ "fields" \in DOMAIN schema[k]
                      \/ ~IsFolder(schema[k]) /\ "default" \in DOMAIN schema[k]}
  /\ \A k \in DOMAIN tree :
       IF IsFolder(schema[k])
       THEN tree[k].tag = "obj" /\ IsDefaultTree(tree[k].fields, schema[k].fields)
       ELSE tree[k] = schema[k].default

\* C27: what extractDefaultsFromSchema returns, in the mobile host and in the
\* web host, is the default tree of the schema: a mapping for every folder with
\* fields, also one without a default below it, the default for every control
\* that has one, no key for a control without.
C27_DefaultsFollowSchema ==
  note.kind = "schema" =>
    /\ IsDefaultTree(note.item.mobile, note.item.schema)
    /\ IsDefaultTree(note.item.web, note.item.schema)

\* a folder without a default below it, inside a folder
C27_Witness ==
  /\ note.kind = "schema"
  /\ "outer" \in DOMAIN note.item.mobile
  /\ note.item.mobile["outer"].fields["bare"] = Obj(EmptyTree)
  /\ note.item.web["outer"].fields["inner"] = Obj([deep |-> Str(<<"a">>)])

\* source laid over target, records merged with records
RECURSIVE MergedTree(_, _)
MergedTree(target, source) ==
  [k \in (DOMAIN target) \cup (DOMAIN source) |->
     IF k \notin DOMAIN source THEN target[k]
     ELSE IF source[k].tag # "obj" THEN source[k]
     ELSE Obj(MergedTree(IF k \in DOMAIN target /\ target[k].tag = "obj"
                         THEN target[k].fields ELSE EmptyTree,
                         source[k].fields))]

\* C28: deepMerge returns the tree in which a record of source is merged key
\* by key with the record target has under the same key, any other value of
\* source replaces what target has, and a key of target alone is kept.
C28_DeepMergeByKey ==
  note.kind = "merge" => note.item.output = MergedTree(note.item.target, note.item.source)

\* C29: checkVisibility gives TRUE without a condition; otherwise the first
\* predicate present among equals, notEquals, in decides alone, on the value
\* at the condition's path, which is undefined when the path does not resolve.
C29_FirstPredicateDecides ==
  note.kind = "visible" =>
    LET c == note.item.visibleIf
        config == note.item.config
        order == <<"equals", "notEquals", "in">>
        present == {i \in 1..3 : order[i] \in DOMAIN c}
        first == CHOOSE i \in present : \A j \in present : i <= j
        p == c.param
        value == IF p[1] \notin DOMAIN config THEN Undefined
                 ELSE IF Len(p) = 1 THEN config[p[1]]
                 ELSE IF config[p[1]].tag = "obj" /\ p[2] \in DOMAIN config[p[1]].fields
                 THEN config[p[1]].fields[p[2]]
                 ELSE Undefined
    IN  note.item.visible =
          IF c = Undefined \/ present = {} THEN TRUE
          ELSE CASE first = 1 -> value = c.equals
                 [] first = 2 -> value # c.notEquals
                 [] first = 3 -> value \in {c["in"][i] : i \in 1..Len(c["in"])}

\* equals and notEquals name the same value and the value at the path is that
\* value: equals decides
C29_Witness ==
  /\ note.kind = "visible" /\ note.item.visibleIf # Undefined
  /\ {"equals", "notEquals", "in"} \subseteq DOMAIN note.item.visibleIf
  /\ note.item.visibleIf.param = <<"mode", "sound">>
  /\ note.item.config = [mode |-> Obj([sound |-> Str(<<"a">>)])]
  /\ note.item.visible

---------------------------------------------------------------------------
(* The web host's pane: edits, visibility, serialization that may suspend *)

\* edits of the pane in one behaviour
MaxPaneEdits == 3

\* an HTMLImageElement whose src is a blob URL, and the data URL it converts to
BlobImage == [tag |-> "img", src |-> "blob"]
DataUrl == Str(<<"d">>)

\* the condition on the folder "advanced": mode equals "n"
AdvancedVisibleIf == [param |-> <<"mode">>, equals |-> Str(<<"n">>)]

\* the value tree the pane starts with, its keys in schema order: mode,
\* image, advanced, title
PaneDefaults ==
  [mode |-> Str(<<"a">>), image |-> Str(<<>>),
   advanced |-> Obj([sound |-> Bool(FALSE)]), title |-> Str(<<"a">>)]

\* an updateVisibility that puts what it hides back to its default
updateVisibility_Erases(pane) ==
  LET hide == ~checkVisibility(pane.config, AdvancedVisibleIf)
  IN  [pane EXCEPT !.hidden = hide,
                   !.config = IF hide
                              THEN [@ EXCEPT !["advanced"] = Obj([sound |-> Bool(FALSE)])]
                              ELSE @]

\* TweakpaneBuilder.updateVisibility: control.hidden of the one control with a
\* condition
updateVisibility(pane) ==
  [pane EXCEPT !.hidden = ~checkVisibility(pane.config, AdvancedVisibleIf)]

\* serializeConfig up to its first await that waits for something: the keys
\* before a blob image are read now; done says that no such await was reached
serializeConfigStart(config) ==
  IF config["image"] = BlobImage
  THEN [done |-> FALSE, value |-> [mode |-> config["mode"]]]
  ELSE [done |-> TRUE, value |-> serializeConfig(config)]

\* serializeConfig after the conversion: the remaining keys are read from the
\* tree as it is now
serializeConfigResume(partial, config) ==
  [k \in DOMAIN config |->
     IF k \in DOMAIN partial THEN partial[k]
     ELSE IF k = "image" THEN DataUrl
     ELSE serializeConfig(config)[k]]

\* the whole tree serialized at one instant
Snapshot(config) ==
  [k \in DOMAIN config |->
     IF config[k] = BlobImage THEN DataUrl ELSE serializeConfig(config)[k]]

\* the pane built, its first PARAMS_UPDATE received by the widget
InitPane ==
  /\ widget = [config |-> PaneDefaults, hidden |-> TRUE, pending |-> <<>>]
  /\ rt = [RuntimeInit EXCEPT !.params = Snapshot(PaneDefaults)]
  /\ host = [config |-> Snapshot(PaneDefaults)]
  /\ toWidget = <<>>
  /\ note = Quiet
  /\ ghost = [edits |-> 0, sent |-> <<>>, history |-> {Snapshot(PaneDefaults)}]
  /\ calls = <<>> /\ last = Idle /\ received = 0 /\ toHost = <<>>

\* handleConfigChange with the serialization started by edit number edit
PaneSend(edit, payload) ==
  /\ host' = [config |-> payload]
  /\ toWidget' = Append(toWidget, ParamsUpdate(payload))
  /\ note' = Note("sent", [edit |-> edit, payload |-> payload])

\* the user changes one control that is shown: the change handler updates the
\* visibility, starts the serialization and, unless it suspends, sends
PaneChange ==
  \E key \in {"mode", "title", "sound", "image"} :
    /\ ghost.edits < MaxPaneEdits
    /\ key = "sound" => ~widget.hidden
    /\ key = "image" => widget.config["image"] # BlobImage
    /\ LET flip(v) == IF v = Str(<<"a">>) THEN Str(<<"n">>) ELSE Str(<<"a">>)
           c == widget.config
           edited == CASE key = "sound" ->
                            [c EXCEPT !["advanced"] =
                                        Obj([sound |-> Bool(~c["advanced"].fields.sound.b)])]
                       [] key = "image" -> [c EXCEPT !["image"] = BlobImage]
                       [] OTHER -> [c EXCEPT ![key] = flip(@)]
           pane == updateVisibility([widget EXCEPT !.config = edited])
           s == serializeConfigStart(pane.config)
           edit == ghost.edits + 1
       IN  /\ ghost' = [ghost EXCEPT !.edits = edit,
                                     !.history = @ \cup {Snapshot(pane.config)},
                                     !.sent = IF s.done THEN Append(@, edit) ELSE @]
           /\ IF s.done
              THEN /\ widget' = pane
                   /\ PaneSend(edit, s.value)
              ELSE /\ widget' = [pane EXCEPT !.pending = Append(@, [edit |-> edit, partial |-> s.value])]
                   /\ note' = Quiet
                   /\ UNCHANGED <<host, toWidget>>
    /\ UNCHANGED <<rt, calls, last, received, toHost>>

\* the conversion a suspended serialization waits for completes: any of the
\* pending ones may be the first
PaneResume ==
  \E i \in 1..Len(widget.pending) :
    /\ PaneSend(widget.pending[i].edit,
                serializeConfigResume(widget.pending[i].partial, widget.config))
    /\ widget' = [widget EXCEPT !.pending = [j \in 1..(Len(@) - 1) |->
                                               IF j < i THEN @[j] ELSE @[j + 1]]]
    /\ ghost' = [ghost EXCEPT !.sent = Append(@, widget.pending[i].edit)]
    /\ UNCHANGED <<rt, calls, last, received, toHost>>

\* the widget's runtime handles the oldest message posted to it
PaneDeliver ==
  /\ toWidget # <<>>
  /\ rt' = RuntimeOnMessage(rt, Head(toWidget)).rt
  /\ toWidget' = Tail(toWidget)
  /\ note' = Quiet
  /\ UNCHANGED <<calls, last, received, host, widget, toHost, ghost>>

NextPane ==
  \/ PaneChange
  \/ PaneResume
  \/ PaneDeliver

SpecPane == InitPane /\ [][NextPane]_vars

\* C25: the PARAMS_UPDATEs of the pane are sent in the order of the edits that
\* caused them, each payload is the whole tree as it was at one instant, and
\* when no serialization is pending and no message is on its way the widget's
\* parameter tree is the host's tree as it is now.
C25_EditsArriveInOrder ==
  /\ \A i, j \in 1..Len(ghost.sent) : i < j => ghost.sent[i] < ghost.sent[j]
  /\ note.kind = "sent" => note.item.payload \in ghost.history
  /\ (widget.pending = <<>> /\ toWidget = <<>>) => rt.params = Snapshot(widget.config)

---------------------------------------------------------------------------
(* Properties of the pane's controls *)

\* the field of a schema under a path of keys, through the fields of folders
RECURSIVE FieldOf(_, _)
FieldOf(schema, p) ==
  IF Len(p) = 1 THEN schema[p[1]] ELSE FieldOf(schema[p[1]].fields, Tail(p))

\* C31: after an edit, when the tree is serialized for the PARAMS_UPDATE of
\* that edit, every control whose field has a visibleIf condition is hidden
\* exactly when the condition is false on the tree as it is after the edit.
C31_VisibilityFollowsEdit ==
  note.kind = "change" =>
    \A p \in ControlPaths(note.item.schema) :
      "visibleIf" \in DOMAIN FieldOf(note.item.schema, p) =>
        note.item.hidden[p] =
          ~checkVisibility(note.item.config, FieldOf(note.item.schema, p).visibleIf)


\* C32: a JSON text handed to handleMessageFromNative is decoded into the
\* message a window message event would carry, and that message is handed to
\* every registered listener exactly once, in the page of the native host too,
\* where the host's own handleMessageFromNative was injected before the
\* bridge replaced it.
C32_NativeReachesEveryListenerOnce ==
  (note.kind = "inbound" /\ note.item.path = "native"
     /\ note.item.data \notin MalformedData \cup {Undecodable})
    => /\ note.item.data \in WellFormedData
       /\ \A i \in 1..Len(widget.listeners) :
            Cardinality({j \in 1..Len(note.item.delivered) :
                           note.item.delivered[j] = widget.listeners[i]}) = 1


\* C33: a step changes the runtime's parameter tree or its initial answer
\* only when it handles a PARAMS_UPDATE: a sending call, a subscription, an
\* unsubscription and a message of another type leave both as they were; and
\* emitEvent hands exactly one message to the bridge, the EVENT with the name
\* and the data of the call, which is posted once where a host interface
\* exists.
C33_OnlyUpdatesWriteTheTree ==
  /\ [][(rt'.params # rt.params \/ rt'.initialAnswer # rt.initialAnswer)
          => last'.op = "PARAMS_UPDATE"]_vars
  /\ [](last.op = "emitEvent" =>
          LET c == last.payload.call
              message == [type |-> "EVENT", event |-> c.args.eventName, payload |-> c.args.data]
          IN  /\ c.handed = <<message>>
              /\ last.payload.transports # {}
                   => /\ Len(last.payload.posted) = 1
                      /\ last.payload.posted[1].message = message)

\* emitEvent was called inside a frame by a runtime that holds a tree and an
\* initial answer, and both have subscribers
C33_Witness ==
  /\ last.op = "emitEvent" /\ last.payload.transports = {"parent"}
  /\ rt.params # EmptyTree /\ rt.initialAnswer # Null
  /\ rt.paramsListeners # <<>> /\ rt.answerListeners # <<>>


---------------------------------------------------------------------------
(* Properties of the hook's submit *)

\* C34: with an evaluate that throws, no call of the hook's submit sends a
\* SUBMIT or sets isSubmitting, the result being null; and whenever
\* isSubmitting is set by a call of submit it is false again later.
C34_ThrowingEvaluateAbortsSubmit ==
  /\ [](widget.evaluateThrows =>
          /\ toHost = <<>>
          /\ ~widget.isSubmitting
          /\ widget.result = Null
          /\ note.kind = "hookSubmit" => ~note.item.sent)
  /\ (widget.isSubmitting ~> ~widget.isSubmitting)

\* submit was called with an answer set while evaluate throws
C34_Witness ==
  /\ note.kind = "hookSubmit" /\ widget.evaluateThrows
  /\ Truthy(widget.submitFn.answer) /\ ~widget.submitFn.isLocked


---------------------------------------------------------------------------
(* Properties of the hosts on a definition they cannot use *)

\* C35: when a host handles a WIDGET_READY that carries no schema it holds an
\* error to display afterwards, sets no timer that would send a PARAMS_UPDATE,
\* posts nothing to the widget and leaves the widget's page as it is.
C35_ReadyWithoutSchemaIsAnError ==
  [][(/\ toHost # <<>> /\ toHost' = Tail(toHost)
      /\ Head(toHost).message.type = "WIDGET_READY"
      /\ "payload" \notin DOMAIN Head(toHost).message)
       => /\ host'.error # Null
          /\ host'.sendTimers = host.sendTimers
          /\ Len(host'.paneTimers) <= Len(host.paneTimers)
          /\ toWidget' = toWidget
          /\ widget' = widget]_vars


\* C36: while the web host is in review mode, every PARAMS_UPDATE it sends
\* carries __answer, and when no message is queued or on its way the widget's
\* runtime holds an initial answer that is not null.
C36_ReviewKeepsTheAnswer ==
  (host.kind = "web" /\ host.isReviewMode) =>
    /\ (note.kind = "sent" => HasAnswer(note.item.message.payload))
    /\ (toWidget = <<>> /\ host.queue = <<>>) => rt.initialAnswer # Null


\* C37: every message handed to the web host's sendMessage comes to be
\* posted: once the iframe is ready and no load timer is left that would
\* flush the queue, no message is waiting in the queue, where nothing but a
\* reload of the iframe would ever take it from.
C37_NothingStaysQueued ==
  (host.kind = "web" /\ host.iframeReady /\ host.loadTimers = 0) => host.queue = <<>>


---------------------------------------------------------------------------
(* The mobile host alone, under any messages from the page *)

\* messages the mobile host handles in one behaviour
MaxHostInbound == 3

\* what a page may post to the mobile host
HostInboundMessages ==
  {ReadySignal, [type |-> "WIDGET_READY", payload |-> [name |-> Str(<<"a">>)]],
   ReadyWithSchema(WidgetSchema),
   ReadyWithSchema([title |-> [type |-> "string", default |-> Str(<<"n">>)],
                    mode |-> [type |-> "string", default |-> Str(<<"a">>)]]),
   submit(Str(<<"a">>), Evaluation)}

\* the host mounted, the page running
InitMobileHost ==
  /\ \E initialConfig \in MobileInitialConfigs : host = HostInit("mobile", initialConfig)
  /\ widget = [WidgetLoading EXCEPT !.phase = "running"]
  /\ rt = RuntimeInit
  /\ calls = <<>>
  /\ last = Op("init", "none", NoUpdate, NoUpdate, NoUpdate)
  /\ received = 0
  /\ toWidget = <<>>
  /\ toHost = <<>>
  /\ note = Quiet
  /\ ghost = [inbound |-> 0, bare |-> 0, schemas |-> 0]

\* onMessage of the WebView: handleMessage parses the text and handles it
MobileInbound ==
  \E message \in HostInboundMessages :
    /\ ghost.inbound < MaxHostInbound
    /\ LET w == WidgetToHost("mobile", message)
           ready == message.type = "WIDGET_READY"
           withSchema == ready /\ "payload" \in DOMAIN message
                         /\ "schema" \in DOMAIN message.payload
       IN  /\ host' = IF w.ok THEN MobileOnMessage(host, w.message) ELSE host
           /\ note' = Note("inbound", [message |-> message])
           /\ ghost' = [inbound |-> ghost.inbound + 1,
                        bare |-> ghost.bare + (IF ready /\ ~withSchema THEN 1 ELSE 0),
                        schemas |-> ghost.schemas + (IF withSchema THEN 1 ELSE 0)]
    /\ calls' = <<>>
    /\ UNCHANGED <<rt, last, received, widget, toWidget, toHost>>

NextMobileHost ==
  \/ MobileInbound
  \/ MobileSendTimer

SpecMobileHost == InitMobileHost /\ [][NextMobileHost]_vars

\* C38: the timers the mobile host has set for the initial PARAMS_UPDATE and
\* the initial PARAMS_UPDATEs it has sent are at most one together, however
\* many WIDGET_READY messages it has handled; and handling a WIDGET_READY
\* without a schema leaves the whole host as it was, configSent included.
C38_InitialUpdateAtMostOnce ==
  /\ [](Len(host.sendTimers) + Len(toWidget) <= 1)
  /\ []((host.sendTimers # <<>> \/ toWidget # <<>>) => host.configSent)
  /\ [][(note'.kind = "inbound" /\ note'.item.message.type = "WIDGET_READY"
         /\ ("payload" \notin DOMAIN note'.item.message
             \/ "schema" \notin DOMAIN note'.item.message.payload))
          => host' = host]_vars

\* a WIDGET_READY without schema, then two with a schema, and one initial
\* PARAMS_UPDATE sent
C38_Witness ==
  /\ ghost.bare = 1 /\ ghost.schemas = 2
  /\ Len(toWidget) = 1 /\ host.sendTimers = <<>>
  /\ toWidget[1].origin = "initial"


\* C39: a message the mobile host sent is handed to the runtime's listener as
\* a message equal to the one sent, whatever strings its payload holds.
C39_MobileWireIsFaithful ==
  [][(host.kind = "mobile" /\ toWidget # <<>> /\ toWidget' = Tail(toWidget))
       => /\ note'.kind = "delivered"
          /\ note'.item.message = Head(toWidget).message]_vars


---------------------------------------------------------------------------
(* validateWidget: a hidden iframe, a message listener, a 2 s timer *)

\* calls of validateWidget in one behaviour; one call is made at a time
MaxValidations == 2

\* messages that windows other than the hidden iframe post meanwhile
MaxStrayMessages == 2

\* what the URL turns out to be: a widget, whose page posts the bare
\* WIDGET_READY and then the one with the schema; another page, which posts a
\* message of its own; a URL whose load fails
PageKinds == {"widget", "other", "broken"}

PagePosts(kind) ==
  CASE kind = "widget" -> <<ReadySignal, ReadyWithSchema(WidgetSchema)>>
    [] kind = "other" -> <<[type |-> "EVENT"]>>
    [] OTHER -> <<>>

\* no validation started yet
NotValidating ==
  [active |-> FALSE, timer |-> FALSE, listener |-> FALSE, iframe |-> FALSE,
   cleanups |-> 0, resolveCalls |-> 0, result |-> Null, started |-> 0, strays |-> 0]

\* a cleanup that leaves the timer armed
cleanup_KeepsTimer(h) ==
  [h EXCEPT !.listener = FALSE, !.iframe = FALSE, !.cleanups = @ + 1]

\* cleanup: clearTimeout, removeEventListener, removeChild
cleanup(h) ==
  [h EXCEPT !.timer = FALSE, !.listener = FALSE, !.iframe = FALSE, !.cleanups = @ + 1]

\* resolve(result): the promise keeps the result of the first call
resolve(h, result) ==
  [h EXCEPT !.resolveCalls = @ + 1, !.result = IF h.resolveCalls = 0 THEN result ELSE @]

InitValidate ==
  /\ host = NotValidating
  /\ widget = [kind |-> "other", posts |-> <<>>]
  /\ toHost = <<>>
  /\ ghost = [first |-> "none"]
  /\ note = Quiet
  /\ rt = Idle /\ calls = <<>> /\ last = Idle /\ received = 0 /\ toWidget = <<>>

\* handleLoadWidget calls validateWidget, which it does not do while an
\* earlier call is pending
ValidateStart ==
  \E kind \in PageKinds :
    /\ ~host.active \/ host.resolveCalls > 0
    /\ host.started < MaxValidations
    /\ host' = [active |-> TRUE, timer |-> TRUE, listener |-> TRUE, iframe |-> TRUE,
                cleanups |-> 0, resolveCalls |-> 0, result |-> Null,
                started |-> host.started + 1, strays |-> host.strays]
    /\ widget' = [kind |-> kind, posts |-> PagePosts(kind)]
    /\ ghost' = [first |-> "none"]
    /\ note' = Quiet
    /\ UNCHANGED <<rt, calls, last, received, toWidget, toHost>>

\* the page in the hidden iframe posts its next message to the window
PagePost ==
  /\ host.iframe /\ widget.posts # <<>>
  /\ toHost' = Append(toHost, Head(widget.posts))
  /\ widget' = [widget EXCEPT !.posts = Tail(@)]
  /\ note' = Quiet
  /\ UNCHANGED <<rt, calls, last, received, host, toWidget, ghost>>

\* another window posts to this one; messageListener looks at the type of a
\* message and not at its source
StrayPost ==
  \E message \in {ReadySignal, [type |-> "EVENT"]} :
    /\ host.active /\ host.strays < MaxStrayMessages
    /\ toHost' = Append(toHost, message)
    /\ host' = [host EXCEPT !.strays = @ + 1]
    /\ note' = Quiet
    /\ UNCHANGED <<rt, calls, last, received, widget, toWidget, ghost>>

\* a message event on the window: messageListener, if it is still registered
ValidateMessage ==
  /\ toHost # <<>>
  /\ toHost' = Tail(toHost)
  /\ LET ready == Head(toHost).type = "WIDGET_READY"
     IN  /\ host' = IF host.listener /\ ready
                    THEN resolve(cleanup(host), [valid |-> TRUE])
                    ELSE host
         /\ ghost' = IF ready /\ ghost.first = "none" THEN [first |-> "ready"] ELSE ghost
  /\ note' = Quiet
  /\ UNCHANGED <<rt, calls, last, received, widget, toWidget>>

\* the 2 s timer fires
ValidateTimeout ==
  /\ host.timer
  /\ host' = resolve(cleanup(host), [valid |-> FALSE, errorType |-> "timeout"])
  /\ ghost' = IF ghost.first = "none" THEN [first |-> "timeout"] ELSE ghost
  /\ note' = Quiet
  /\ UNCHANGED <<rt, calls, last, received, widget, toWidget, toHost>>

\* the error event of the iframe, which has one while it is in the document
ValidateError ==
  /\ host.iframe /\ widget.kind = "broken"
  /\ host' = resolve(cleanup(host), [valid |-> FALSE, errorType |-> "network"])
  /\ ghost' = IF ghost.first = "none" THEN [first |-> "error"] ELSE ghost
  /\ note' = Quiet
  /\ UNCHANGED <<rt, calls, last, received, widget, toWidget, toHost>>

NextValidate ==
  \/ ValidateStart
  \/ PagePost
  \/ StrayPost
  \/ ValidateMessage
  \/ ValidateTimeout
  \/ ValidateError

\* a timer that is armed fires
SpecValidate == InitValidate /\ [][NextValidate]_vars /\ WF_vars(ValidateTimeout)

\* C40: of the WIDGET_READY message, the timer and the error event at most
\* one calls resolve and cleanup, once each; the promise of every call of
\* validateWidget comes to be resolved; it is resolved with valid = true
\* exactly when a WIDGET_READY was the first of the three to happen; and after
\* the cleanup the timer is cleared, the listener removed and the iframe gone.
C40_ValidationResolvesOnce ==
  /\ [](host.resolveCalls <= 1 /\ host.cleanups = host.resolveCalls)
  /\ [](host.resolveCalls = 1 =>
          /\ host.result.valid <=> ghost.first = "ready"
          /\ ~host.timer /\ ~host.listener /\ ~host.iframe)
  /\ ((host.active /\ host.resolveCalls = 0) ~> host.resolveCalls = 1)

\* the second WIDGET_READY of a widget is handled after the first resolved
\* the promise
C40_Witness ==
  /\ host.resolveCalls = 1 /\ host.result.valid
  /\ widget.kind = "widget" /\ widget.posts = <<>> /\ toHost = <<>>

====
